---------------------------- MODULE Spec2Model ----------------------------
(***************************************************************************)
(* Action resolution pipeline of ShellHell (src/game/actions.py,           *)
(* src/services/ai_service.py): the interpreter gateway, the action        *)
(* validator, the outcome resolver and the orchestrator                    *)
(* execute_free_action, modelled as state machines over the player, the    *)
(* current room and the game's fail counter.                               *)
(*                                                                         *)
(* Python strings are TLA+ strings; `in`, lower(), strip(), startswith()   *)
(* and re.split() are computed character by character.  A dictionary       *)
(* entry that may be absent or null is a record [k, v] with k one of       *)
(* "missing", "null", "val".  Plausibility is carried in hundredths.       *)
(***************************************************************************)
EXTENDS Integers, Sequences, FiniteSets, TLC

VARIABLES player, room, game, last, vcall, icall, dcall, steps

vars == <<player, room, game, last, vcall, icall, dcall, steps>>

---------------------------------------------------------------------------
(* Python string primitives *)

\* the lower-case letter of each upper-case letter
LowerOf ==
    ("A" :> "a") @@ ("B" :> "b") @@ ("C" :> "c") @@ ("D" :> "d") @@ ("E" :> "e")
    @@ ("F" :> "f") @@ ("G" :> "g") @@ ("H" :> "h") @@ ("I" :> "i") @@ ("J" :> "j")
    @@ ("K" :> "k") @@ ("L" :> "l") @@ ("M" :> "m") @@ ("N" :> "n") @@ ("O" :> "o")
    @@ ("P" :> "p") @@ ("Q" :> "q") @@ ("R" :> "r") @@ ("S" :> "s") @@ ("T" :> "t")
    @@ ("U" :> "u") @@ ("V" :> "v") @@ ("W" :> "w") @@ ("X" :> "x") @@ ("Y" :> "y")
    @@ ("Z" :> "z")

\* str.lower() on one character; the texts used hold no upper-case letter
\* outside A-Z
LowerChar(c) == IF c \in DOMAIN LowerOf THEN LowerOf[c] ELSE c

RECURSIVE Lower(_)
\* str.lower()
Lower(s) == IF s = "" THEN "" ELSE LowerChar(Head(s)) \o Lower(Tail(s))

\* Python `sub in s`
Contains(sub, s) ==
    \E i \in 0..(Len(s) - Len(sub)) : SubSeq(s, i + 1, i + Len(sub)) = sub

\* str.startswith(p)
StartsWith(s, p) == Len(p) <= Len(s) /\ SubSeq(s, 1, Len(p)) = p

RECURSIVE LStrip(_)
LStrip(s) == IF s # "" /\ Head(s) = " " THEN LStrip(Tail(s)) ELSE s

RECURSIVE RStrip(_)
RStrip(s) ==
    IF s # "" /\ SubSeq(s, Len(s), Len(s)) = " "
    THEN RStrip(SubSeq(s, 1, Len(s) - 1)) ELSE s

\* str.strip()
Strip(s) == RStrip(LStrip(s))

RECURSIVE SplitAcc(_, _, _, _)
SplitAcc(s, seps, cur, acc) ==
    IF s = "" THEN (IF cur = "" THEN acc ELSE Append(acc, cur))
    ELSE IF Head(s) \in seps
         THEN SplitAcc(Tail(s), seps, "", IF cur = "" THEN acc ELSE Append(acc, cur))
         ELSE SplitAcc(Tail(s), seps, cur \o Head(s), acc)

\* re.split(r'[<seps>]+', s) without the empty strings that a leading or
\* trailing separator yields (every caller drops words shorter than 4)
Split(s, seps) == SplitAcc(s, seps, "", <<>>)

\* any(keyword in s for keyword in keywords)
AnyIn(keywords, s) == \E i \in 1..Len(keywords) : Contains(keywords[i], s)

\* x in list
InList(x, list) == \E i \in 1..Len(list) : list[i] = x

---------------------------------------------------------------------------
(* Optional dictionary entries *)

Missing == [k |-> "missing", v |-> ""]
Null == [k |-> "null", v |-> ""]
Val(s) == [k |-> "val", v |-> s]

MissingN == [k |-> "missing", v |-> 0]
NullN == [k |-> "null", v |-> 0]
ValN(n) == [k |-> "val", v |-> n]

\* dict.get(key) is None
IsNone(e) == e.k # "val"
\* truthiness of dict.get(key) for a string entry
Truthy(e) == e.k = "val" /\ e.v # ""

---------------------------------------------------------------------------
(* Items, monsters, NPCs *)

NoItem == [id |-> "", name |-> "", type |-> "none", is_curse |-> FALSE, key_id |-> ""]
Wings == [id |-> "wings_1", name |-> "Wings", type |-> "material", is_curse |-> FALSE, key_id |-> ""]
DoorKey == [id |-> "key_1", name |-> "Door Key", type |-> "key", is_curse |-> FALSE, key_id |-> "k1"]
Sword == [id |-> "sword_1", name |-> "Sword", type |-> "weapon", is_curse |-> FALSE, key_id |-> ""]

CursedBlade == [id |-> "sword_2", name |-> "Cursed Blade", type |-> "weapon", is_curse |-> TRUE, key_id |-> ""]

Slots == {"weapon", "armor", "ring", "head"}
NoEquipment == [s \in Slots |-> NoItem]

NoMonster == [present |-> FALSE, name |-> "", hp |-> 0, unaware |-> FALSE]
Goblin == [present |-> TRUE, name |-> "Goblin", hp |-> 10, unaware |-> TRUE]

NoNpc == [present |-> FALSE, name |-> "", role |-> "", alive |-> FALSE]
Scholar == [present |-> TRUE, name |-> "Aldric", role |-> "scholar", alive |-> TRUE]

---------------------------------------------------------------------------
(* ActionValidator *)

FORBIDDEN_METHODS ==
    <<"teleport", "fly", "phase_through", "time_travel",
      "summon", "resurrect", "omniscience", "invincibility">>

exploration_targets ==
    <<"room", "raum", "environment", "umgebung", "self",
      "ausgänge", "exits", "ausgang", "exit",
      "wände", "walls", "wand", "wall",
      "boden", "floor", "decke", "ceiling",
      "gegend", "area", "surroundings">>

taking_keywords ==
    <<"nimm", "nehm", "take", "grab", "pick up", "mitnehm", "einsteck", "pack">>

immovable_objects ==
    <<"altar", "statue", "wand", "wall", "mauer", "boden", "floor",
      "decke", "ceiling", "säule", "column", "pfeiler", "pillar",
      "tür", "door", "tor", "gate", "treppe", "stairs", "leiter", "ladder",
      "thron", "throne", "tisch", "table", "stuhl", "chair",
      "sarkophag", "sarcophagus", "grab", "grave", "gruft", "crypt",
      "brunnen", "fountain", "well", "becken", "basin", "pool">>

\* ability_items.get(ability, [])
enabling_items(ability) ==
    CASE ability = "fly" -> <<"wings", "levitation potion", "flight spell">>
      [] ability = "teleport" -> <<"teleportation scroll", "warp stone">>
      [] ability = "phase_through" -> <<"ethereal cloak", "ghost potion">>
      [] OTHER -> <<>>

\* [item.name.lower() for item in player.inventory]
inventory_names_lower(p) == [i \in 1..Len(p.inventory) |-> Lower(p.inventory[i].name)]

\* [item.name for item in player.inventory]
inventory_names(p) == [i \in 1..Len(p.inventory) |-> p.inventory[i].name]

\* has_ability comparing the item names as spelled, without lower()
has_ability_CaseSensitive(p, ability) ==
    \E i \in 1..Len(enabling_items(ability)) :
        InList(enabling_items(ability)[i], inventory_names(p))

has_ability(p, ability) ==
    \E i \in 1..Len(enabling_items(ability)) :
        InList(enabling_items(ability)[i], inventory_names_lower(p))

\* target.lower() in item.name.lower() for some item of the list
NameInItems(t, items) == \E i \in 1..Len(items) : Contains(t, Lower(items[i].name))

\* the same over the equipment slots
NameInEquipment(t, p) ==
    \E s \in Slots : p.equipment[s] # NoItem /\ Contains(t, Lower(p.equipment[s].name))

matches_with_declension(target_word, npc_word) ==
    \/ target_word = npc_word
    \/ /\ Len(target_word) >= 5
       /\ Len(npc_word) >= 5
       /\ (Contains(target_word, npc_word) \/ Contains(npc_word, target_word))

\* one string contains the other
Fuzzy(a, b) == Contains(a, b) \/ Contains(b, a)

TargetSeps == {" ", "-"}
TextSeps == {" ", "-", ",", ".", ":", ";", "!", "?"}

\* [w for w in re.split(r'[\s\-]+', target.lower()) if len(w) > 3]
target_words(t) == SelectSeq(Split(t, TargetSeps), LAMBDA w : Len(w) > 3)

word_matches(target_word, text) ==
    LET text_words == Split(text, TextSeps)
    IN  \E i \in 1..Len(text_words) :
            /\ Len(target_word) >= 4
            /\ Len(text_words[i]) >= 4
            /\ Fuzzy(target_word, text_words[i])

\* the target matches a recorded destroyed object
MatchesDestroyed(t, r) ==
    \E i \in 1..Len(r.destroyed_objects) : Fuzzy(Lower(r.destroyed_objects[i]), t)

\* at least one significant word of the target appears in the description
IsAnchor(t, r) ==
    \E i \in 1..Len(target_words(t)) : word_matches(target_words(t)[i], Lower(r.description))

Allowed == [kind |-> "allowed", reason |-> Missing]
Denied(reason) == [kind |-> "denied", reason |-> reason]
Raised(what) == [kind |-> "raised", reason |-> Val(what)]

\* target existence found before the description is looked at (lines 116-194)
FoundBeforeDescription(t, p, r) ==
    \/ r.monster.present /\ Contains(t, Lower(r.monster.name))
    \/ NameInItems(t, r.loot)
    \/ NameInItems(t, p.inventory)
    \/ NameInEquipment(t, p)
    \/ /\ r.npc.present /\ r.npc.alive
       /\ \/ matches_with_declension(t, Lower(r.npc.name))
          \/ matches_with_declension(t, Lower(r.npc.role))
    \/ r.assigned_object.k = "val" /\ Fuzzy(Lower(r.assigned_object.v), t)
    \/ \E i \in 1..Len(r.discovered_objects) : Fuzzy(Lower(r.discovered_objects[i]), t)

\* the checks that follow the target search: forbidden methods, components
PhysicsAndComponents(intent, p) ==
    IF intent.method.k = "null" THEN Raised("AttributeError")
    ELSE LET method == Lower(intent.method.v)
             bad == {i \in 1..Len(FORBIDDEN_METHODS) :
                        /\ Contains(FORBIDDEN_METHODS[i], method)
                        /\ ~has_ability(p, FORBIDDEN_METHODS[i])}
             comps == intent.components_used
             lacking == {i \in 1..Len(comps) : ~InList(comps[i], inventory_names(p))}
             Min(S) == CHOOSE i \in S : \A j \in S : i <= j
         IN  IF bad # {}
             THEN Denied(Val("PHYSICS_VIOLATION: " \o FORBIDDEN_METHODS[Min(bad)]))
             ELSE IF lacking # {}
             THEN Denied(Val("MISSING_COMPONENT: " \o comps[Min(lacking)]))
             ELSE Allowed

\* the target existence check (lines 112-275); "pass" continues with the next check
TargetCheck(intent, p, r) ==
    LET target == intent.target.v
        t == Lower(target)
        found == FoundBeforeDescription(t, p, r)
        methodRead == /\ r.assigned_object.k = "val"
                      /\ Fuzzy(Lower(r.assigned_object.v), t)
        is_taking == AnyIn(taking_keywords, Lower(intent.method.v))
    IN  IF methodRead /\ intent.method.k = "null" THEN Raised("AttributeError")
        ELSE IF r.description = ""
        THEN (IF found THEN [kind |-> "pass", reason |-> Missing]
              ELSE Denied(Val("TARGET_NOT_PRESENT: " \o target)))
        ELSE IF MatchesDestroyed(t, r)
        THEN Denied(Val("OBJECT_DESTROYED: " \o target \o " ist irreparabel zerstört"))
        ELSE IF IsAnchor(t, r)
        THEN (IF intent.method.k = "null" THEN Raised("AttributeError")
              ELSE IF /\ is_taking
                      /\ ~NameInItems(t, r.loot)
                      /\ AnyIn(immovable_objects, t)
              THEN Denied(Val("OBJECT_FIXED: " \o target
                              \o " ist fest verbaut und kann nicht mitgenommen werden"))
              ELSE [kind |-> "pass", reason |-> Missing])
        ELSE IF found THEN [kind |-> "pass", reason |-> Missing]
        ELSE Denied(Val("TARGET_NOT_PRESENT: " \o target))

TargetCheckedTypes == {"physical_attack", "social", "interact_object"}

\* plausibility < 0.1 is denied; hundredths
PLAUSIBILITY_THRESHOLD == 10

\* the interpreter-verdict and plausibility steps of validate (lines 85-97),
\* "pass" when neither denies
VerdictAndPlausibility(intent, threshold) ==
    IF intent.valid \in {"false", "null"}
    THEN Denied(IF intent.reason_if_invalid.k = "missing"
                THEN Val("INTERPRETER_REJECTION")
                ELSE intent.reason_if_invalid)
    ELSE IF intent.plausibility.k = "null" THEN Raised("TypeError")
    ELSE IF (IF intent.plausibility.k = "missing" THEN 0 ELSE intent.plausibility.v)
            < threshold
    THEN Denied(Val("IMPLAUSIBLE"))
    ELSE [kind |-> "pass", reason |-> Missing]

\* the target step of validate (lines 101-275), "pass" when it does not apply
TargetStep(intent, p, r) ==
    IF /\ Truthy(intent.target)
       /\ intent.action_type \in TargetCheckedTypes
       /\ ~InList(Lower(intent.target.v), exploration_targets)
    THEN TargetCheck(intent, p, r)
    ELSE [kind |-> "pass", reason |-> Missing]

\* validate with the plausibility threshold itself denied
Validate_ThresholdInclusive(intent, p, r) ==
    LET first == VerdictAndPlausibility(intent, PLAUSIBILITY_THRESHOLD + 1)
        tc == TargetStep(intent, p, r)
    IN  IF first.kind # "pass" THEN first
        ELSE IF tc.kind # "pass" THEN tc
        ELSE PhysicsAndComponents(intent, p)

\* validate with the forbidden-method and component checks placed before
\* the target check
Validate_PhysicsFirst(intent, p, r) ==
    LET first == VerdictAndPlausibility(intent, PLAUSIBILITY_THRESHOLD)
        pc == PhysicsAndComponents(intent, p)
        tc == TargetStep(intent, p, r)
    IN  IF first.kind # "pass" THEN first
        ELSE IF pc.kind # "allowed" THEN pc
        ELSE IF tc.kind # "pass" THEN tc
        ELSE Allowed

\* ActionValidator.validate(intent, player, room)
Validate(intent, p, r) ==
    LET first == VerdictAndPlausibility(intent, PLAUSIBILITY_THRESHOLD)
        tc == TargetStep(intent, p, r)
    IN  IF first.kind # "pass" THEN first
        ELSE IF tc.kind # "pass" THEN tc
        ELSE PhysicsAndComponents(intent, p)

---------------------------------------------------------------------------
(* The inputs the validator is applied to *)

Attributes == [strength |-> 15, dexterity |-> 12, wisdom |-> 14, intelligence |-> 10]

\* Grimoire()
NoSpells == [spells |-> <<>>, total_discoveries |-> 0, current_run_discoveries |-> 0]

\* Player() with the given hit points, inventory and equipment
MkPlayer(inv, eq) ==
    [hp |-> 20, max_hp |-> 20, gold |-> 0, xp |-> 0, level |-> 1,
     attributes |-> Attributes, inventory |-> inv, equipment |-> eq,
     grimoire |-> NoSpells]

\* Room() with the given contents
MkRoom(desc, monster, npc, assigned, loot, discovered, destroyed) ==
    [type |-> "EMPTY", description |-> desc, monster |-> monster, npc |-> npc,
     assigned_object |-> assigned, loot |-> loot, looted |-> FALSE,
     hidden_key |-> NoItem, locked_door |-> "",
     discovered_objects |-> discovered, destroyed_objects |-> destroyed]

Description == "A heavy door."

PlayerPool ==
    { MkPlayer(<<>>, NoEquipment),
      MkPlayer(<<Wings>>, NoEquipment),
      MkPlayer(<<DoorKey>>, NoEquipment),
      MkPlayer(<<Sword>>, [NoEquipment EXCEPT !["weapon"] = Sword]) }

OccupantPool ==
    { <<NoMonster, NoNpc, Null>>, <<Goblin, NoNpc, Null>>,
      <<NoMonster, Scholar, Null>>, <<NoMonster, NoNpc, Val("Altar")>> }

RoomPool ==
    { MkRoom(d, o[1], o[2], o[3], l, disc, destr) :
        d \in {"", Description}, o \in OccupantPool,
        l \in {<<>>, <<DoorKey>>},
        disc \in {<<>>, <<"Lever">>}, destr \in {<<>>, <<"lever">>} }

ActionTypes == {"interact_object", "physical_attack", "use_item"}
TargetPool == {Null, Val(""), Val("wall"), Val("Old Lever"), Val("door key"),
               Val("ghost"), Val("sword")}
MethodPool == {Val("pull"), Val("take it"), Val("fly up"), Val("Summon and fly")}
PlausibilityPool == {ValN(9), ValN(10), MissingN}
ComponentPool == {<<>>, <<"Ruby">>, <<"Key">>}

MkIntent(at, t, m, pl, v, why, comps) ==
    [action_type |-> at, target |-> t, method |-> m, plausibility |-> pl,
     valid |-> v, reason_if_invalid |-> why, components_used |-> comps]

\* the intents the validator is called with: every combination of the pools,
\* with the interpreter's verdict either positive or negative with a reason,
\* and the degenerate entries (a null method, plausibility or reason) one at
\* a time
IntentPool ==
    { MkIntent(at, t, m, pl, v[1], v[2], c) :
        at \in ActionTypes, t \in TargetPool, m \in MethodPool,
        pl \in PlausibilityPool,
        v \in {<<"true", Null>>, <<"false", Val("too silly")>>},
        c \in ComponentPool }
    \cup
    { MkIntent("interact_object", t, Null, ValN(50), "true", Null, <<>>) :
        t \in TargetPool }
    \cup
    { MkIntent("interact_object", t, Val("pull"), NullN, "true", Null, <<>>) :
        t \in TargetPool }
    \cup
    { MkIntent("interact_object", t, Val("pull"), ValN(50), v[1], v[2], <<>>) :
        t \in TargetPool,
        v \in {<<"false", Null>>, <<"false", Missing>>, <<"null", Missing>>,
               <<"missing", Null>>} }

NoCall == [made |-> FALSE, intent |-> MkIntent("", Null, Null, NullN, "", Null, <<>>),
           result |-> Allowed]

NoInterpretation ==
    [made |-> FALSE, action |-> "", backend |-> [kind |-> "none"],
     intent |-> MkIntent("", Null, Null, NullN, "", Null, <<>>)]
NoLast ==
    [report |-> [kind |-> "none", action |-> "", backend |-> "none",
                 action_type |-> "",
                 target |-> Null, valid |-> "", components_used |-> <<>>,
                 reason |-> Missing, feedback |-> "none", checked |-> FALSE,
                 counted |-> FALSE,
                 success |-> FALSE,
                 impact |-> [hp |-> 0, gold |-> 0, xp |-> 0, item |-> NoItem],
                 magic |-> [kind |-> "none", spell |-> 0, effect_type |-> ""],
                 found_gold |-> 0],
     streak |-> [n |-> 0, action |-> ""]]
\* no call of the dice or the rewards recorded yet
NoDice == [made |-> FALSE]
NewGame == [fail_count |-> 0, last_failed_action |-> "", state |-> "EXPLORING"]

---------------------------------------------------------------------------
(* The validator as an operation: a caller applies it to an intent *)

VInit ==
    /\ player \in PlayerPool
    /\ room \in RoomPool
    /\ game = NewGame
    /\ last = NoLast
    /\ vcall = NoCall
    /\ icall = NoInterpretation
    /\ dcall = NoDice
    /\ steps = 0

\* a validator that takes the loot it looks through out of the room
ValidateCall_TakingLoot ==
    /\ ~vcall.made
    /\ \E intent \in IntentPool :
          vcall' = [made |-> TRUE, intent |-> intent,
                    result |-> Validate(intent, player, room)]
    /\ room' = [room EXCEPT !.loot = <<>>]
    /\ UNCHANGED <<player, game, last, icall, dcall, steps>>

ValidateCall ==
    /\ ~vcall.made
    /\ \E intent \in IntentPool :
          vcall' = [made |-> TRUE, intent |-> intent,
                    result |-> Validate(intent, player, room)]
    /\ UNCHANGED <<player, room, game, last, icall, dcall, steps>>

VNext == ValidateCall

SpecValidate == VInit /\ [][VNext]_vars

---------------------------------------------------------------------------
(* AIService.interpret_action: the interpreter gateway *)

\* a key the backend's JSON object does not carry
ABSENT == "<absent>"

\* the intent interpret_action returns when it has no usable answer
FailureIntent(reason) ==
    MkIntent(ABSENT, Missing, Missing, ValN(0), "false", Val(reason), <<>>)

\* the fallback intent of resolve_free_action
SafeDefault(action) ==
    MkIntent("interact_object", Null, Val(action), ValN(50), "true", Null, <<>>)

\* the first required field the backend's object lacks
MissingField(json) ==
    IF json.action_type = ABSENT THEN "action_type"
    ELSE IF json.valid = "missing" THEN "valid"
    ELSE IF json.plausibility.k = "missing" THEN "plausibility"
    ELSE ""

\* interpret_action(action_text, player, room): backend is what the provider
\* does for this call
interpret_action(action_text, backend) ==
    CASE backend.kind = "unavailable" -> FailureIntent("AI not available")
      [] backend.kind = "empty" -> FailureIntent("LLM returned empty response")
      [] backend.kind = "invalid_json" -> FailureIntent("LLM returned invalid JSON")
      [] backend.kind = "json" ->
            IF MissingField(backend.json) # ""
            THEN FailureIntent("LLM response missing '"
                               \o MissingField(backend.json) \o "'")
            ELSE backend.json

Unavailable == [kind |-> "unavailable", json |-> FailureIntent("")]
EmptyResponse == [kind |-> "empty", json |-> FailureIntent("")]
InvalidJson == [kind |-> "invalid_json", json |-> FailureIntent("")]
Json(intent) == [kind |-> "json", json |-> intent]

---------------------------------------------------------------------------
(* DiceRoller and ActionResolver *)

Max(a, b) == IF a >= b THEN a ELSE b
Min(a, b) == IF a <= b THEN a ELSE b

\* the draws of random.randint(lo, hi)
Draw(lo, hi) == lo..hi

\* DiceRoller.attribute_check with the attribute modifier rounded toward zero
attribute_check_Truncating(attribute_value, difficulty, advantage, disadvantage, gift_bonus, roll1, roll2) ==
    LET roll == IF advantage THEN Max(roll1, roll2)
                ELSE IF disadvantage THEN Min(roll1, roll2)
                ELSE roll1
        modifier == IF attribute_value >= 10 THEN (attribute_value - 10) \div 2
                    ELSE 0 - ((10 - attribute_value) \div 2)
        total == roll + modifier + gift_bonus
    IN  [success |-> total >= difficulty, roll |-> roll, total |-> total]

\* DiceRoller.attribute_check: (success, roll, total); roll1 and roll2 are
\* what d20() returns, roll2 being rolled only with advantage or disadvantage
attribute_check(attribute_value, difficulty, advantage, disadvantage, gift_bonus, roll1, roll2) ==
    LET roll == IF advantage \/ disadvantage
                THEN (IF advantage THEN Max(roll1, roll2) ELSE Min(roll1, roll2))
                ELSE roll1
        modifier == (attribute_value - 10) \div 2
        total == roll + modifier + gift_bonus
    IN  [success |-> total >= difficulty, roll |-> roll, total |-> total]

treasure_keywords ==
    <<"schatz", "treasure", "gold", "münz", "coin", "geld", "money",
      "plünder", "loot", "beute", "wertsach", "valuabl",
      "durchsuch", "search for", "suche nach", "finde", "versteck", "hidden",
      "truhe", "chest", "kiste", "box", "schatzkammer", "vault">>

NoImpact == [hp |-> 0, gold |-> 0, xp |-> 0, item |-> NoItem]

\* determine_rewards paying gold on every critical success, treasure or not
determine_rewards_GoldOnEveryCritical(success, roll_total, difficulty, plausibility, action_type, action_text) ==
    IF success
    THEN LET margin == roll_total - difficulty
             creativity_bonus == (100 - plausibility) \div 10
             xp == IF plausibility >= 80 THEN 0
                   ELSE IF plausibility >= 60 THEN Max(1, difficulty \div 2)
                   ELSE difficulty + (margin * 2) + creativity_bonus
             golds == IF /\ margin >= 10
                         /\ action_type # "social"
                      THEN Draw(5, 15) ELSE {0}
         IN  {[hp |-> 0, gold |-> g, xp |-> xp, item |-> NoItem] : g \in golds}
    ELSE LET margin == difficulty - roll_total
             losses == IF margin >= 8 THEN Draw(2, 5)
                       ELSE IF margin >= 5 THEN Draw(1, 3)
                       ELSE IF difficulty >= 14 THEN Draw(1, margin \div 2 + 1)
                       ELSE {0}
         IN  {[hp |-> 0 - h, gold |-> 0, xp |-> 0, item |-> NoItem] : h \in losses}

\* determine_rewards with the creativity bonus growing with plausibility
determine_rewards_PlausibleEarnsMore(success, roll_total, difficulty, plausibility, action_type, action_text) ==
    IF success
    THEN LET margin == roll_total - difficulty
             creativity_bonus == plausibility \div 10
             xp == IF plausibility >= 80 THEN 0
                   ELSE IF plausibility >= 60 THEN Max(1, difficulty \div 2)
                   ELSE difficulty + (margin * 2) + creativity_bonus
             golds == IF /\ margin >= 10
                         /\ action_type # "social"
                         /\ AnyIn(treasure_keywords, Lower(action_text))
                      THEN Draw(5, 15) ELSE {0}
         IN  {[hp |-> 0, gold |-> g, xp |-> xp, item |-> NoItem] : g \in golds}
    ELSE LET margin == difficulty - roll_total
             losses == IF margin >= 8 THEN Draw(2, 5)
                       ELSE IF margin >= 5 THEN Draw(1, 3)
                       ELSE IF difficulty >= 14 THEN Draw(1, margin \div 2 + 1)
                       ELSE {0}
         IN  {[hp |-> 0 - h, gold |-> 0, xp |-> 0, item |-> NoItem] : h \in losses}

\* determine_rewards hurting on every failure, easy actions included
determine_rewards_SmallFailuresHurt(success, roll_total, difficulty, plausibility, action_type, action_text) ==
    IF success
    THEN LET margin == roll_total - difficulty
             creativity_bonus == (100 - plausibility) \div 10
             xp == IF plausibility >= 80 THEN 0
                   ELSE IF plausibility >= 60 THEN Max(1, difficulty \div 2)
                   ELSE difficulty + (margin * 2) + creativity_bonus
             golds == IF /\ margin >= 10
                         /\ action_type # "social"
                         /\ AnyIn(treasure_keywords, Lower(action_text))
                      THEN Draw(5, 15) ELSE {0}
         IN  {[hp |-> 0, gold |-> g, xp |-> xp, item |-> NoItem] : g \in golds}
    ELSE LET margin == difficulty - roll_total
             losses == IF margin >= 8 THEN Draw(2, 5)
                       ELSE IF margin >= 5 THEN Draw(1, 3)
                       ELSE Draw(1, margin \div 2 + 1)
         IN  {[hp |-> 0 - h, gold |-> 0, xp |-> 0, item |-> NoItem] : h \in losses}

\* ActionResolver.determine_rewards: the impacts its random draws can yield;
\* plausibility in hundredths
determine_rewards(success, roll_total, difficulty, plausibility, action_type, action_text) ==
    IF success
    THEN LET margin == roll_total - difficulty
             creativity_bonus == (100 - plausibility) \div 10
             xp == IF plausibility >= 80 THEN 0
                   ELSE IF plausibility >= 60 THEN Max(1, difficulty \div 2)
                   ELSE difficulty + (margin * 2) + creativity_bonus
             golds == IF /\ margin >= 10
                         /\ action_type # "social"
                         /\ AnyIn(treasure_keywords, Lower(action_text))
                      THEN Draw(5, 15) ELSE {0}
         IN  {[hp |-> 0, gold |-> g, xp |-> xp, item |-> NoItem] : g \in golds}
    ELSE LET margin == difficulty - roll_total
             losses == IF margin >= 8 THEN Draw(2, 5)
                       ELSE IF margin >= 5 THEN Draw(1, 3)
                       ELSE IF difficulty >= 14 THEN Draw(1, margin \div 2 + 1)
                       ELSE {0}
         IN  {[hp |-> 0 - h, gold |-> 0, xp |-> 0, item |-> NoItem] : h \in losses}

strength_keywords == <<"force", "break", "smash", "lift", "push">>
dexterity_keywords == <<"dodge", "sneak", "climb", "jump", "quick">>
wisdom_keywords == <<"perceive", "notice", "sense", "listen", "spot">>
intelligence_keywords == <<"investigate", "recall", "decipher", "analyze">>

map_action_to_attribute(action_type, method) ==
    LET method_lower == Lower(method)
    IN  IF AnyIn(strength_keywords, method_lower) THEN "strength"
        ELSE IF AnyIn(dexterity_keywords, method_lower) THEN "dexterity"
        ELSE IF AnyIn(wisdom_keywords, method_lower) THEN "wisdom"
        ELSE IF AnyIn(intelligence_keywords, method_lower) THEN "intelligence"
        ELSE CASE action_type \in {"physical_attack", "environment_action"} -> "strength"
               [] action_type = "move" -> "dexterity"
               [] action_type \in {"social", "attempt_magic"} -> "intelligence"
               [] OTHER -> "wisdom"

crafting_keywords ==
    <<"baue", "forme", "erstelle", "arbeite", "fertige", "schmiede",
      "konstruiere", "bastle", "zusammen", "herstell",
      "craft", "build", "forge", "create", "make", "assemble",
      "rüstung", "waffe", "dolch", "schwert", "schild", "armor", "weapon">>

_is_crafting_action(action, method) ==
    \E i \in 1..Len(crafting_keywords) :
        \/ Contains(crafting_keywords[i], Lower(action))
        \/ Contains(crafting_keywords[i], Lower(method))

search_keywords == <<"untersuche", "durchsuche", "suche", "inspect", "search">>

\* plausibility 0.5 gives difficulty 12, the floor of a search
SEARCH_DIFFICULTY_FLOOR == 12

\* the mapping with its slope turned: 5 at plausibility 0.0, 20 at 1.0
Difficulty_Rising(plausibility) == 5 + ((15 * plausibility) \div 100)

\* int(20 - plausibility * 15), plausibility in hundredths within [0, 100]
Difficulty(plausibility) == 20 - ((15 * plausibility + 99) \div 100)

\* the difficulty resolve_free_action rolls against (lines 1192-1202)
CheckDifficulty(action, plausibility) ==
    IF AnyIn(search_keywords, Lower(action))
    THEN Max(Difficulty(plausibility), SEARCH_DIFFICULTY_FLOOR)
    ELSE Difficulty(plausibility)

\* Step 4c of resolve_free_action: a successful taking of something the
\* description or the assigned object names, that is not in the loot
TakesFromDescription(intent, r) ==
    /\ intent.action_type = "interact_object"
    /\ AnyIn(taking_keywords, Lower(intent.method.v))
    /\ Truthy(intent.target)
    /\ LET t == Lower(intent.target.v)
       IN  /\ \/ /\ r.description # ""
                 /\ \E i \in 1..Len(target_words(t)) :
                        Contains(target_words(t)[i], Lower(r.description))
              \/ /\ r.assigned_object.k = "val"
                 /\ Fuzzy(Lower(r.assigned_object.v), t)
           /\ ~NameInItems(t, r.loot)

\* Player.equip_item replacing whatever the slot holds, cursed or not
equip_item_IgnoringCurse(p, item) ==
    IF ~InList(item, p.inventory) THEN [ok |-> FALSE, player |-> p]
    ELSE IF item.type \notin Slots THEN [ok |-> FALSE, player |-> p]
    ELSE [ok |-> TRUE, player |-> [p EXCEPT !.equipment[item.type] = item]]

\* Player.equip_item(item): the slot is the item's type
equip_item(p, item) ==
    IF ~InList(item, p.inventory) THEN [ok |-> FALSE, player |-> p]
    ELSE IF item.type \notin Slots THEN [ok |-> FALSE, player |-> p]
    ELSE IF p.equipment[item.type] # NoItem /\ p.equipment[item.type].is_curse
    THEN [ok |-> FALSE, player |-> p]
    ELSE [ok |-> TRUE, player |-> [p EXCEPT !.equipment[item.type] = item]]

\* Player.uncurse_item(item): the flag is cleared on the item object, which
\* the inventory and the equipment slot both refer to
uncurse_item(p, item) ==
    IF ~item.is_curse THEN [ok |-> FALSE, player |-> p]
    ELSE LET clean(i) == IF i = item THEN [i EXCEPT !.is_curse = FALSE] ELSE i
         IN  [ok |-> TRUE,
              player |-> [p EXCEPT
                            !.inventory = [k \in 1..Len(p.inventory) |-> clean(p.inventory[k])],
                            !.equipment = [s \in Slots |-> clean(p.equipment[s])]]]

\* the first inventory item whose lowercased name holds the text, NoItem if none
FirstByName(p, text) ==
    LET hits == {i \in 1..Len(p.inventory) : Contains(text, Lower(p.inventory[i].name))}
    IN  IF hits = {} THEN NoItem
        ELSE p.inventory[CHOOSE i \in hits : \A j \in hits : i <= j]

\* the first inventory item whose lowercased name or id holds the text
FirstByNameOrId(p, text) ==
    LET hits == {i \in 1..Len(p.inventory) :
                    \/ Contains(text, Lower(p.inventory[i].name))
                    \/ Contains(text, Lower(p.inventory[i].id))}
    IN  IF hits = {} THEN NoItem
        ELSE p.inventory[CHOOSE i \in hits : \A j \in hits : i <= j]

\* the equip case putting the item on before it looks at the curse of the
\* item it replaces
EquipIntent_EquipsBeforeChecking(p, intent) ==
    LET target_name == Lower(intent.target.v)
        target_item == FirstByNameOrId(p, target_name)
        done == equip_item_IgnoringCurse(p, target_item)
    IN  IF target_item = NoItem
        THEN [ok |-> FALSE, player |-> p,
              reason |-> "Du hast '" \o target_name \o "' nicht im Inventar."]
        ELSE IF target_item.type \notin Slots
        THEN [ok |-> FALSE, player |-> p,
              reason |-> target_item.name \o " kann nicht angelegt werden"]
        ELSE IF /\ p.equipment[target_item.type] # NoItem
                /\ p.equipment[target_item.type].is_curse
        THEN [ok |-> FALSE, player |-> done.player,
              reason |-> p.equipment[target_item.type].name
                         \o " ist verflucht und kann nicht abgelegt werden"]
        ELSE [ok |-> done.ok, player |-> done.player,
              reason |-> IF done.ok THEN ""
                         ELSE "Konnte " \o target_item.name \o " nicht anlegen."]

\* the equip case of resolve_free_action (lines 1001-1138): no dice
EquipIntent(p, intent) ==
    LET target_name == Lower(intent.target.v)
        target_item == FirstByNameOrId(p, target_name)
    IN  IF target_item = NoItem
        THEN [ok |-> FALSE, player |-> p,
              reason |-> "Du hast '" \o target_name \o "' nicht im Inventar."]
        ELSE IF target_item.type \notin Slots
        THEN [ok |-> FALSE, player |-> p,
              reason |-> target_item.name \o " kann nicht angelegt werden"]
        ELSE IF /\ p.equipment[target_item.type] # NoItem
                /\ p.equipment[target_item.type].is_curse
        THEN [ok |-> FALSE, player |-> p,
              reason |-> p.equipment[target_item.type].name
                         \o " ist verflucht und kann nicht abgelegt werden"]
        ELSE LET done == equip_item(p, target_item)
             IN  IF done.ok THEN [ok |-> TRUE, player |-> done.player, reason |-> ""]
                 ELSE [ok |-> FALSE, player |-> p,
                       reason |-> "Konnte " \o target_item.name \o " nicht anlegen."]

\* resolve_free_action up to the dice: the intent it settles on and what the
\* validator says.  "error" is an exception the caller catches.
Resolve(action, backend, p, r) ==
    LET intent == IF backend.kind = "unavailable" THEN SafeDefault(action)
                  ELSE interpret_action(action, backend)
        validation == Validate(intent, p, r)
    IN  IF validation.kind = "raised"
        THEN [kind |-> "rejected", intent |-> intent,
              reason |-> Val("VALIDATION_ERROR: " \o validation.reason.v)]
        ELSE IF validation.kind = "denied"
        THEN [kind |-> "rejected", intent |-> intent, reason |-> validation.reason]
        ELSE IF intent.action_type = "equip"
        THEN (IF intent.target.k = "null"
              THEN [kind |-> "error", intent |-> intent, reason |-> Val("AttributeError")]
              ELSE [kind |-> "equip", intent |-> intent, reason |-> Missing])
        ELSE IF intent.action_type = "attempt_magic"
        THEN (IF intent.method.k = "null"
              THEN [kind |-> "error", intent |-> intent, reason |-> Val("TypeError")]
              ELSE [kind |-> "magic", intent |-> intent, reason |-> Missing])
        ELSE IF intent.method.k # "val"
        THEN [kind |-> "error", intent |-> intent, reason |-> Val("KeyError")]
        ELSE [kind |-> "check", intent |-> intent, reason |-> Missing]

\* the dice and the impact of resolve_free_action for an allowed intent: the
\* results its random draws and the item generator can yield
Checks(action, intent, p, r, rolls, generated) ==
    LET attr_name == map_action_to_attribute(intent.action_type, intent.method.v)
        plausibility == intent.plausibility.v
        difficulty == CheckDifficulty(action, plausibility)
        Generates(success) ==
            success /\ (\/ _is_crafting_action(action, intent.method.v)
                        \/ TakesFromDescription(intent, r))
    IN  UNION { LET check == attribute_check(p.attributes[attr_name], difficulty,
                                                 FALSE, FALSE, 0, roll, roll)
                IN  { [success |-> check.success, total |-> check.total,
                       difficulty |-> difficulty,
                       impact |-> [impact EXCEPT !.item = item],
                       magic |-> [kind |-> "none", spell |-> 0, effect_type |-> ""]] :
                        impact \in determine_rewards(check.success, check.total,
                                                     difficulty, plausibility,
                                                     intent.action_type, action),
                        item \in IF Generates(check.success) THEN generated
                                 ELSE {NoItem} }
              : roll \in rolls }

---------------------------------------------------------------------------
(* Spells: the grimoire, spell effects and resolve_magic_attempt *)

\* Spell(...)
MkSpell(name, effect_type, magnitude, components, words, plausibility) ==
    [name |-> name, effect_type |-> effect_type, magnitude |-> magnitude,
     components |-> components, gesture |-> "", words |-> words,
     plausibility |-> plausibility, uses |-> 0]

\* set(components)
SetOf(list) == {list[i] : i \in 1..Len(list)}

\* the spell is the same recipe as an existing one: the same set of
\* components and the same words up to case
SameRecipe(existing, components, words) ==
    /\ SetOf(existing.components) = SetOf(components)
    /\ Lower(existing.words) = Lower(words)

\* Grimoire.add_spell that dedupes by name only
add_spell_ByNameOnly(g, spell) ==
    IF \E i \in 1..Len(g.spells) : g.spells[i].name = spell.name
    THEN [returned |-> FALSE, grimoire |-> g]
    ELSE [returned |-> TRUE,
          grimoire |-> [g EXCEPT !.spells = Append(@, spell),
                                 !.total_discoveries = @ + 1,
                                 !.current_run_discoveries = @ + 1]]

\* Grimoire.add_spell(spell)
add_spell(g, spell) ==
    IF \E i \in 1..Len(g.spells) :
          \/ g.spells[i].name = spell.name
          \/ SameRecipe(g.spells[i], spell.components, spell.words)
    THEN [returned |-> FALSE, grimoire |-> g]
    ELSE [returned |-> TRUE,
          grimoire |-> [g EXCEPT !.spells = Append(@, spell),
                                 !.total_discoveries = @ + 1,
                                 !.current_run_discoveries = @ + 1]]

\* Grimoire.find_spell(components, words): the index of the first spell of
\* that recipe, 0 if none
find_spell(g, components, words) ==
    LET hits == {i \in 1..Len(g.spells) : SameRecipe(g.spells[i], components, words)}
    IN  IF hits = {} THEN 0 ELSE CHOOSE i \in hits : \A j \in hits : i <= j

\* Grimoire.reset_current_run()
reset_current_run(g) == [g EXCEPT !.current_run_discoveries = 0]

MAGIC_DEFAULT_DIFFICULTY == 15

\* no spell was involved in a check
NoMagic == [kind |-> "none", spell |-> 0, effect_type |-> ""]

\* the magic evaluator gave no usable answer (None)
NoAnswer == [is_valid_attempt |-> FALSE, plausibility |-> 0, is_discovery |-> FALSE,
             spell_name |-> "", effect_type |-> "", magnitude |-> ""]

\* what the magic evaluator answered to this request
MagicAnswer(backend) == IF "magic" \in DOMAIN backend THEN backend.magic ELSE NoAnswer

IsQuote(c) == c = "'" \/ c = "\""

\* re.search(r'["\']([^"\']+)["\']', method): the text between the first
\* quote that is followed by another character and the quote after it
QuotedWords(method) ==
    LET quotes == {i \in 1..Len(method) : IsQuote(SubSeq(method, i, i))}
        starts == {i \in quotes :
                     \E j \in quotes : /\ j > i + 1
                                       /\ \A k \in (i + 1)..(j - 1) : k \notin quotes}
    IN  IF starts = {} THEN ""
        ELSE LET i == CHOOSE x \in starts : \A y \in starts : x <= y
                 j == CHOOSE x \in quotes : x > i /\ \A y \in quotes : y > i => x <= y
             IN  SubSeq(method, i + 1, j - 1)

\* int(n * mult) for the multiplier of the magnitude: 1.0, 1.5 or 2.0
Scaled(n, magnitude) ==
    LET tenths == IF magnitude = "moderate" THEN 15
                  ELSE IF magnitude = "major" THEN 20 ELSE 10
    IN  (n * tenths) \div 10

\* ActionResolver.apply_spell_effect(spell, player, room, target): the impact
\* it returns with the player and the room as it leaves them (the monster's
\* stun and defense and the caster's buffs are not among the modelled fields)
apply_spell_effect(spell, p, r) ==
    LET m == spell.magnitude
        base == [hp |-> 0, gold |-> 0, xp |-> 1, item |-> NoItem]
        alive == r.monster.present /\ r.monster.hp > 0
        Strike(lo, hi, xp, blo, bhi) ==
            IF alive
            THEN {[impact |-> [base EXCEPT !.xp = Scaled(xp, m)], player |-> p,
                   room |-> [r EXCEPT !.monster.hp = @ - Scaled(d, m)]] : d \in Draw(lo, hi)}
            ELSE {[impact |-> [base EXCEPT !.hp = 0 - b], player |-> p, room |-> r]
                    : b \in Draw(blo, bhi)}
        Mend(lo, hi, xp) ==
            {[impact |-> [base EXCEPT !.hp = Scaled(h, m), !.xp = Scaled(xp, m)],
              player |-> [p EXCEPT !.hp = Min(p.max_hp, p.hp + Scaled(h, m))],
              room |-> r] : h \in Draw(lo, hi)}
        Plain(xp) == {[impact |-> [base EXCEPT !.xp = Scaled(xp, m)], player |-> p, room |-> r]}
    IN  IF spell.effect_type = "fire" THEN Strike(5, 15, 10, 1, 2)
        ELSE IF spell.effect_type = "ice" THEN Strike(3, 10, 12, 1, 2)
        ELSE IF spell.effect_type = "lightning" THEN Strike(8, 20, 15, 2, 4)
        ELSE IF spell.effect_type = "heal" THEN Mend(10, 20, 5)
        ELSE IF spell.effect_type = "shield" THEN Plain(8)
        ELSE IF spell.effect_type = "dark" THEN Strike(6, 12, 12, 2, 5)
        ELSE IF spell.effect_type = "light" THEN Mend(5, 10, 6)
        ELSE Plain(5)

\* int(20 - min(0.95, plausibility + 0.2) * 15) for a plausibility in
\* hundredths; 0.4 + 0.2 is 0.6000000000000001 in binary floating point, which
\* puts that one difficulty a point lower
KnownSpellDifficulty(plausibility) ==
    IF plausibility = 40 THEN 10 ELSE Difficulty(Min(95, plausibility + 20))

\* ActionResolver.resolve_magic_attempt: the check with the player and the
\* room as the attempt leaves them
resolve_magic_attempt(action, intent, p, r, rolls, magic_data) ==
    LET components_used == intent.components_used
        gesture == intent.method.v
        words == QuotedWords(intent.method.v)
        known == find_spell(p.grimoire, components_used, words)
        attr_value == p.attributes.intelligence
        Cast(roll) ==
            LET known_spell == p.grimoire.spells[known]
                difficulty == KnownSpellDifficulty(known_spell.plausibility)
                check == attribute_check(attr_value, difficulty, FALSE, FALSE, 0, roll, roll)
                used == [p EXCEPT !.grimoire.spells[known].uses = @ + 1]
            IN  IF check.success
                THEN {[check |-> [success |-> TRUE, total |-> check.total,
                                  difficulty |-> difficulty, impact |-> e.impact,
                                  magic |-> [kind |-> "known_cast", spell |-> known,
                                             effect_type |-> known_spell.effect_type]],
                       player |-> e.player, room |-> e.room]
                        : e \in apply_spell_effect(known_spell, used, r)}
                ELSE {[check |-> [success |-> FALSE, total |-> check.total,
                                  difficulty |-> difficulty,
                                  impact |-> [hp |-> 0 - b, gold |-> 0, xp |-> 0, item |-> NoItem],
                                  magic |-> [kind |-> "known_failed", spell |-> known,
                                             effect_type |-> known_spell.effect_type]],
                       player |-> used, room |-> r]
                        : b \in Draw(1, 3)}
        Attempt(roll) ==
            LET plausibility == magic_data.plausibility
                difficulty == Difficulty(plausibility)
                check == attribute_check(attr_value, difficulty, FALSE, FALSE, 0, roll, roll)
                impacts == determine_rewards(check.success, check.total, difficulty,
                                             plausibility, "", action)
                spell == [MkSpell(magic_data.spell_name, magic_data.effect_type,
                                  magic_data.magnitude, components_used, words,
                                  plausibility) EXCEPT !.gesture = gesture]
                added == add_spell(p.grimoire, spell)
                learned == [p EXCEPT !.grimoire = added.grimoire]
            IN  IF check.success /\ magic_data.is_discovery
                THEN {[check |-> [success |-> TRUE, total |-> check.total,
                                  difficulty |-> difficulty,
                                  impact |-> [impact EXCEPT
                                                !.xp = @ + e.impact.xp,
                                                !.hp = IF e.impact.hp # 0 THEN e.impact.hp ELSE @],
                                  magic |-> [kind |-> IF added.returned THEN "discovery"
                                                      ELSE "rediscovery",
                                             spell |-> 0,
                                             effect_type |-> magic_data.effect_type]],
                       player |-> e.player, room |-> e.room]
                        : impact \in impacts, e \in apply_spell_effect(spell, learned, r)}
                ELSE {[check |-> [success |-> check.success, total |-> check.total,
                                  difficulty |-> difficulty, impact |-> impact,
                                  magic |-> [kind |-> "attempt", spell |-> 0,
                                             effect_type |-> magic_data.effect_type]],
                       player |-> p, room |-> r]
                        : impact \in impacts}
    IN  IF known # 0 THEN UNION {Cast(roll) : roll \in rolls}
        ELSE IF ~magic_data.is_valid_attempt
        THEN {[check |-> [success |-> FALSE, total |-> 0,
                          difficulty |-> MAGIC_DEFAULT_DIFFICULTY, impact |-> NoImpact,
                          magic |-> [kind |-> "invalid", spell |-> 0, effect_type |-> ""]],
               player |-> p, room |-> r]}
        ELSE UNION {Attempt(roll) : roll \in rolls}

---------------------------------------------------------------------------
(* execute_free_action: the orchestrator *)

\* the world one call works on
World(p, r, g) == [player |-> p, room |-> r, game |-> g]

\* action.lower().strip()
Normalized(action) == Strip(Lower(action))

\* a run of this many failures of one action breaks its target
FAILURES_TO_DESTROY == 3

\* the fail counter comparing the action texts as typed
TrackFailure_RawText(w, action, intent, success) ==
    IF success
    THEN [w EXCEPT !.game.last_failed_action = "", !.game.fail_count = 0]
    ELSE LET counted ==
                 IF action = w.game.last_failed_action
                 THEN [w EXCEPT !.game.fail_count = @ + 1]
                 ELSE [w EXCEPT !.game.last_failed_action = action,
                                !.game.fail_count = 1]
         IN  IF counted.game.fail_count >= FAILURES_TO_DESTROY /\ Truthy(intent.target)
             THEN [counted EXCEPT
                      !.room.destroyed_objects = Append(@, intent.target.v),
                      !.game.last_failed_action = "",
                      !.game.fail_count = 0]
             ELSE counted

\* the fail counter after a check (lines 1724-1747)
TrackFailure(w, action, intent, success) ==
    IF success
    THEN [w EXCEPT !.game.last_failed_action = "", !.game.fail_count = 0]
    ELSE LET counted ==
                 IF Normalized(action) = w.game.last_failed_action
                 THEN [w EXCEPT !.game.fail_count = @ + 1]
                 ELSE [w EXCEPT !.game.last_failed_action = Normalized(action),
                                !.game.fail_count = 1]
         IN  IF counted.game.fail_count >= FAILURES_TO_DESTROY /\ Truthy(intent.target)
             THEN [counted EXCEPT
                      !.room.destroyed_objects = Append(@, intent.target.v),
                      !.game.last_failed_action = "",
                      !.game.fail_count = 0]
             ELSE counted

currency_keywords == <<"münze", "coin", "gold", "silber", "kupfer", "geld", "money">>

RECURSIVE ReplaceSpaces(_)
\* str.replace(' ', '_')
ReplaceSpaces(s) ==
    IF s = "" THEN ""
    ELSE (IF Head(s) = " " THEN "_" ELSE Head(s)) \o ReplaceSpaces(Tail(s))

\* the material item made for a discovered item name
DiscoveredItem(item_name, r) ==
    [id |-> "discovered_" \o ToString(Len(r.loot)) \o "_"
            \o ReplaceSpaces(Lower(item_name)),
     name |-> item_name, type |-> "material", is_curse |-> FALSE, key_id |-> ""]

RECURSIVE ProcessItems(_, _)
\* the loop over narration_result['discovered_items'] (lines 1840-1863): an
\* entry that is no string raises and ends the call
ProcessItems(acc, items) ==
    IF items = <<>> THEN {acc}
    ELSE LET entry == Head(items)
         IN  IF entry.k # "val" THEN {[acc EXCEPT !.raised = TRUE]}
             ELSE IF AnyIn(currency_keywords, Lower(entry.v))
             THEN UNION { ProcessItems(
                              [acc EXCEPT !.w.player.gold = @ + gold_amount,
                                          !.found_gold = @ + gold_amount],
                              Tail(items)) : gold_amount \in Draw(5, 20) }
             ELSE ProcessItems(
                      [acc EXCEPT !.w.room.loot =
                                      Append(@, DiscoveredItem(entry.v, acc.w.room))],
                      Tail(items))

RECURSIVE AddDiscovered(_, _)
\* the loop over narration_result['discovered_objects'] (lines 1865-1872)
AddDiscovered(discovered, objects) ==
    IF objects = <<>> THEN discovered
    ELSE AddDiscovered(IF InList(Head(objects), discovered) THEN discovered
                       ELSE Append(discovered, Head(objects)),
                       Tail(objects))

\* what the narrator's answer does to the world (lines 1828-1872)
ProcessDiscoveries(w, narration) ==
    LET credited == IF narration.discovered_gold > 0
                    THEN [w |-> [w EXCEPT !.player.gold = @ + narration.discovered_gold],
                          found_gold |-> narration.discovered_gold, raised |-> FALSE]
                    ELSE [w |-> w, found_gold |-> 0, raised |-> FALSE]
    IN  { IF acc.raised THEN acc
          ELSE [acc EXCEPT !.w.room.discovered_objects =
                               AddDiscovered(@, narration.discovered_objects)]
          : acc \in ProcessItems(credited, narration.discovered_items) }

\* the experience a level costs
LEVEL_XP_FACTOR == 100
\* the hit points a level adds
LEVEL_HP_GAIN == 10

\* check_level_up(game)
check_level_up(p) ==
    LET xp_needed == LEVEL_XP_FACTOR * (p.level * p.level)
    IN  IF p.xp >= xp_needed
        THEN [p EXCEPT !.level = @ + 1, !.xp = @ - xp_needed,
                       !.max_hp = @ + LEVEL_HP_GAIN, !.hp = p.max_hp + LEVEL_HP_GAIN]
        ELSE p

\* the impact written to the player (lines 1881-1907)
ApplyImpact(p, impact) ==
    LET healed == IF impact.hp # 0
                  THEN [p EXCEPT !.hp = Max(0, Min(p.max_hp, p.hp + impact.hp))]
                  ELSE p
        paid == IF impact.gold > 0 THEN [healed EXCEPT !.gold = @ + impact.gold]
                ELSE healed
        taught == IF impact.xp > 0
                  THEN check_level_up([paid EXCEPT !.xp = @ + impact.xp])
                  ELSE paid
    IN  IF impact.item # NoItem
        THEN [taught EXCEPT !.inventory = Append(@, impact.item)]
        ELSE taught

\* the inventory without its first item whose name contains the component
RemoveFirstMatch(inventory, component_name) ==
    LET hits == {i \in 1..Len(inventory) :
                    Contains(Lower(component_name), Lower(inventory[i].name))}
    IN  IF hits = {} THEN inventory
        ELSE LET first == CHOOSE i \in hits : \A j \in hits : i <= j
             IN  SubSeq(inventory, 1, first - 1) \o SubSeq(inventory, first + 1, Len(inventory))

RECURSIVE RemoveComponents(_, _)
\* the used components taken out of the inventory (lines 1909-1919)
RemoveComponents(inventory, components_used) ==
    IF components_used = <<>> THEN inventory
    ELSE RemoveComponents(RemoveFirstMatch(inventory, Head(components_used)),
                          Tail(components_used))

hidden_key_keywords ==
    <<"untersuche", "durchsuche", "suche", "inspect", "search",
      "wand", "wall", "boden", "floor">>

\* a successful search finds the room's hidden key (lines 1961-1973)
FindHiddenKey(w, action, intent, success) ==
    IF /\ success
       /\ intent.action_type = "interact_object"
       /\ AnyIn(hidden_key_keywords, Lower(action))
       /\ w.room.hidden_key # NoItem
    THEN [w EXCEPT !.player.inventory = Append(@, w.room.hidden_key),
                   !.room.hidden_key = NoItem]
    ELSE w

\* a call that ends without the death check
DeathCheck_Skipped(w) == w

\* the death check that ends the call (lines 2234-2238)
DeathCheck(w) ==
    IF w.player.hp <= 0 THEN [w EXCEPT !.game.state = "GAMEOVER"] ELSE w

\* the feedback line chosen for a rejection reason (lines 1644-1657)
Feedback(reason) ==
    IF StartsWith(reason, "TARGET_NOT_PRESENT") THEN "TARGET_NOT_PRESENT"
    ELSE IF StartsWith(reason, "OBJECT_DESTROYED") THEN "OBJECT_DESTROYED"
    ELSE IF StartsWith(reason, "PHYSICS_VIOLATION") THEN "PHYSICS_VIOLATION"
    ELSE IF StartsWith(reason, "MISSING_COMPONENT") THEN "MISSING_COMPONENT"
    ELSE IF reason = "IMPLAUSIBLE" THEN "IMPLAUSIBLE"
    ELSE IF reason = "INTERPRETER_REJECTION" THEN "INTERPRETER_REJECTION"
    ELSE "none"

door_keywords == <<"tür", "door", "unlock", "aufschließ", "öffne", "open">>
talk_keywords == <<"sprich", "spreche", "rede", "frag", "frage", "talk", "speak", "ask", "sag">>

\* the door shortcut is tried before the interpreter is asked
has_door_keyword(action) == AnyIn(door_keywords, Lower(action))

\* a living NPC's dialogue system takes the place of the narrator
is_npc_conversation(r, action) ==
    r.npc.present /\ r.npc.alive /\ AnyIn(talk_keywords, Lower(action))

\* what is recorded of a call: how it ended, the intent it settled on, the
\* check and the impact the resolver computed, and the gold the narrator's
\* discoveries credited
Report(kind, action, backend, intent, reason, feedback, check, counted, found_gold) ==
    [kind |-> kind, action |-> action, backend |-> backend.kind,
     action_type |-> intent.action_type,
     target |-> intent.target, valid |-> intent.valid,
     components_used |-> intent.components_used,
     reason |-> reason, feedback |-> feedback,
     checked |-> check.difficulty # 0, counted |-> counted,
     success |-> check.success, impact |-> check.impact,
     magic |-> check.magic,
     found_gold |-> found_gold]

NoCheck == [success |-> FALSE, total |-> 0, difficulty |-> 0, impact |-> NoImpact,
            magic |-> NoMagic]

\* the narrator's answer that discovers nothing
Quiet == [discovered_gold |-> 0, discovered_items |-> <<>>, discovered_objects |-> <<>>]

\* the call after a check that was made: fail counter, narration, impact,
\* components, hidden key, death check
AfterCheck(w, action, backend, intent, check, narrations) ==
    LET tracked == TrackFailure(w, action, intent, check.success)
        told == IF backend.kind = "unavailable"
                THEN {[w |-> tracked, found_gold |-> 0, raised |-> FALSE]}
                ELSE UNION {ProcessDiscoveries(tracked, n) : n \in narrations}
        Finish(acc) ==
            LET applied == [acc.w EXCEPT !.player = ApplyImpact(@, check.impact)]
                consumed == IF check.success
                            THEN [applied EXCEPT !.player.inventory =
                                      RemoveComponents(@, intent.components_used)]
                            ELSE applied
                searched == FindHiddenKey(consumed, action, intent, check.success)
            IN  DeathCheck(searched)
    IN  { IF acc.raised
          THEN [w |-> [acc.w EXCEPT !.game.state = "CRASHED"],
                report |-> Report("raised", action, backend, intent, Missing, "none",
                                  check, TRUE, acc.found_gold)]
          ELSE [w |-> Finish(acc),
                report |-> Report("resolved", action, backend, intent, Missing, "none",
                                  check, TRUE, acc.found_gold)]
          : acc \in told }

\* Monster.from_template for two of MONSTER_TEMPLATES: hp (which is max_hp
\* too), attack and defense
MonsterTemplates ==
    [name \in {"Schattenratte", "Skelettwächter"} |->
        IF name = "Schattenratte" THEN [hp |-> 10, attack |-> 3, defense |-> 1]
        ELSE [hp |-> 20, attack |-> 5, defense |-> 3]]

\* Player.attack and Player.defense at level 1, and what a level adds
PLAYER_ATTACK == 10
PLAYER_DEFENSE == 5
LEVEL_ATTACK_GAIN == 2
LEVEL_DEFENSE_GAIN == 1

\* Player.get_effective_attack() and get_effective_defense(): the items of
\* the model carry no stats, and only check_level_up changes the base values
get_effective_attack(p) == PLAYER_ATTACK + LEVEL_ATTACK_GAIN * (p.level - 1)
get_effective_defense(p) == PLAYER_DEFENSE + LEVEL_DEFENSE_GAIN * (p.level - 1)

\* the faces drawn for DiceRoller.roll(6)
SixFaces == {1, 6}

\* what the special_effects of the equipped items can say: the curse damage
\* per turn of the cursed ones and the share of the damage a hit with the
\* weapon steals, in percent
CurseDamages == {0, 2}
LifestealPercents == {0, 20}

Bone == [id |-> "loot_1", name |-> "Knochensplitter", type |-> "material", is_curse |-> FALSE, key_id |-> ""]

\* everything one call of attack draws: the two d20 of the attack, the d6
\* of the damage, the two d6 of a critical hit and of a sneak attack, the
\* monster's d20 and d6, the loot roll, and the effects of the equipment
AttackDraws(rolls) ==
    [first : rolls, second : rolls, base : SixFaces,
     crit : {a + b : a \in SixFaces, b \in SixFaces},
     sneak : {a + b : a \in SixFaces, b \in SixFaces},
     monster_roll : rolls, monster_damage : SixFaces,
     drop : {NoItem, Bone},
     curse_damage : CurseDamages, lifesteal : LifestealPercents]

\* attack(game) with a monster in the room, for one draw
attack(w, d) ==
    LET p == w.player
        monster == w.room.monster
        template == MonsterTemplates[monster.name]
        is_backstab == monster.unaware
        dex_mod == (p.attributes.dexterity - 10) \div 2
        str_mod == (p.attributes.strength - 10) \div 2
        attack_roll == IF is_backstab THEN Max(d.first, d.second) ELSE d.first
        attack_total == attack_roll + dex_mod + str_mod
        is_crit == attack_roll >= 20
        monster_dodge_dc == 10 + (template.defense \div 2)
        hit == ~(attack_total < monster_dodge_dc /\ ~is_crit)
        base_damage == IF is_crit THEN d.crit ELSE d.base
        sneak_attack_damage == IF is_backstab THEN d.sneak ELSE 0
        damage_to_monster ==
            Max(1, base_damage + get_effective_attack(p) + sneak_attack_damage
                   - template.defense)
        monster_hp == IF hit THEN monster.hp - damage_to_monster ELSE monster.hp
        fed == IF /\ hit
                  /\ p.equipment.weapon # NoItem
                  /\ d.lifesteal > 0
                  /\ p.hp < p.max_hp
               THEN [p EXCEPT !.hp = Min(p.max_hp,
                                         p.hp + Max(1, (damage_to_monster * d.lifesteal) \div 100))]
               ELSE p
        monster_total == d.monster_roll + ((template.attack - 10) \div 2)
        player_dodge_dc == 10 + dex_mod
        damage_to_player ==
            IF monster_total < player_dodge_dc THEN 0
            ELSE Max(1, d.monster_damage + template.attack - get_effective_defense(p))
        cursed == \E s \in DOMAIN p.equipment :
                     p.equipment[s] # NoItem /\ p.equipment[s].is_curse
        curse_damage == IF cursed THEN d.curse_damage ELSE 0
        hurt == fed.hp - damage_to_player
        left == IF curse_damage > 0 THEN Max(0, hurt - curse_damage) ELSE hurt
    IN  IF monster_hp <= 0
        THEN [w EXCEPT !.player = check_level_up(
                           [fed EXCEPT !.gold = @ + 10 + (template.hp \div 2),
                                       !.xp = @ + template.hp + template.attack]),
                       !.room.loot = IF d.drop # NoItem THEN Append(@, d.drop) ELSE @,
                       !.room.monster = NoMonster,
                       !.game.state = "EXPLORING"]
        ELSE [w EXCEPT !.player.hp = IF left <= 0 THEN 0 ELSE left,
                       !.room.monster.hp = monster_hp,
                       !.room.monster.unaware = FALSE,
                       !.game.state = IF left <= 0 THEN "GAMEOVER" ELSE @]

\* the surprise attack of execute_free_action (lines 1692-1710): an attack
\* intent whose target is part of the name of a living monster that is unaware
IsBackstab(w, intent) ==
    /\ intent.action_type = "physical_attack"
    /\ w.room.monster.present
    /\ w.room.monster.hp > 0
    /\ intent.target.k = "val"
    /\ intent.target.v # ""
    /\ Contains(Lower(intent.target.v), Lower(w.room.monster.name))
    /\ w.room.monster.unaware

\* execute_free_action(game, action): the worlds and reports one call can
\* end in, for an action text without door, chest or talk keywords
Outcomes(w, action, backend, rolls, generated, narrations) ==
    LET res == Resolve(action, backend, w.player, w.room)
        intent == res.intent
    IN  IF res.kind = "error"
        THEN {[w |-> w, report |-> Report("error", action, backend, intent, res.reason,
                                          "none", NoCheck, FALSE, 0)]}
        ELSE IF res.kind = "rejected"
        THEN (IF res.reason.k # "val"
              THEN {[w |-> [w EXCEPT !.game.state = "CRASHED"],
                     report |-> Report("raised", action, backend, intent, res.reason,
                                       "none", NoCheck, FALSE, 0)]}
              ELSE {[w |-> w,
                     report |-> Report("rejected", action, backend, intent, res.reason,
                                       Feedback(res.reason.v), NoCheck, FALSE, 0)]})
        ELSE IF res.kind = "equip"
        THEN LET done == EquipIntent(w.player, intent)
             IN  IF done.ok
                 THEN {[w |-> [w EXCEPT !.player = done.player],
                        report |-> Report("equipped", action, backend, intent, Missing,
                                          "none", NoCheck, FALSE, 0)]}
                 ELSE {[w |-> [w EXCEPT !.player = done.player],
                        report |-> Report("rejected", action, backend, intent,
                                          Val(done.reason), Feedback(done.reason),
                                          NoCheck, FALSE, 0)]}
        ELSE IF res.kind = "magic"
        THEN UNION { AfterCheck([w EXCEPT !.player = mc.player, !.room = mc.room],
                                action, backend, intent, mc.check, narrations)
                     : mc \in resolve_magic_attempt(action, intent, w.player, w.room,
                                                     rolls, MagicAnswer(backend)) }
        ELSE IF IsBackstab(w, intent)
        THEN {[w |-> attack([w EXCEPT !.game.state = "COMBAT"], d),
               report |-> Report("backstab", action, backend, intent, Missing,
                                 "none", NoCheck, FALSE, 0)]
              : d \in AttackDraws(rolls)}
        ELSE UNION { IF /\ intent.action_type = "physical_attack"
                        /\ w.room.monster.present
                        /\ w.room.monster.hp > 0
                        /\ intent.target.k = "null"
                     THEN {[w |-> [w EXCEPT !.game.state = "CRASHED"],
                            report |-> Report("raised", action, backend, intent, Missing,
                                              "none", check, FALSE, 0)]}
                     ELSE AfterCheck(w, action, backend, intent, check, narrations)
                     : check \in Checks(action, intent, w.player, w.room, rolls, generated) }

---------------------------------------------------------------------------
(* The interpreter as an operation *)

ActionTexts == {"pull lever", "Pull lever ", "search for gold"}

\* what the provider can answer: nothing, text that is no JSON, or an object
\* with or without the required fields
BackendPool ==
    {Unavailable, EmptyResponse, InvalidJson}
    \cup {Json(intent) : intent \in IntentPool}
    \cup {Json(MkIntent(ABSENT, Null, Val("pull"), ValN(50), "true", Null, <<>>))}

IInit ==
    /\ player = MkPlayer(<<>>, NoEquipment)
    /\ room = MkRoom(Description, NoMonster, NoNpc, Null, <<>>, <<>>, <<>>)
    /\ game = NewGame
    /\ last = NoLast
    /\ vcall = NoCall
    /\ icall = NoInterpretation
    /\ dcall = NoDice
    /\ steps = 0

InterpretCall ==
    /\ ~icall.made
    /\ \E action \in ActionTexts, backend \in BackendPool :
          icall' = [made |-> TRUE, action |-> action, backend |-> backend,
                    intent |-> interpret_action(action, backend)]
    /\ UNCHANGED <<player, room, game, last, vcall, dcall, steps>>

INext == InterpretCall

SpecInterpret == IInit /\ [][INext]_vars

---------------------------------------------------------------------------
(* The game: calls of execute_free_action, one after the other *)

Blade == [id |-> "crafted_1", name |-> "Blade", type |-> "weapon", is_curse |-> FALSE, key_id |-> ""]

\* a fresh adventurer, and one that is wounded and a few points short of
\* the next level
Adventurers ==
    { MkPlayer(<<Wings>>, NoEquipment),
      [MkPlayer(<<Wings>>, NoEquipment) EXCEPT !.hp = 3, !.xp = 90] }

LeverRoom ==
    [MkRoom("An old lever on the wall.", NoMonster, NoNpc, Null, <<>>, <<>>, <<>>)
        EXCEPT !.hidden_key = DoorKey]
Lair == MkRoom("", Goblin, NoNpc, Null, <<>>, <<"Lever">>, <<>>)

Chambers == {LeverRoom, Lair}

PullLever == MkIntent("interact_object", Val("Old Lever"), Val("pull"), ValN(50), "true", Null, <<>>)
PullSomething == [PullLever EXCEPT !.target = Null]
PullSomehow == [PullLever EXCEPT !.method = Missing]
PullGhost == [PullLever EXCEPT !.target = Val("ghost")]
SearchWall == MkIntent("interact_object", Val("wall"), Val("search"), ValN(50), "true", Null, <<>>)
Stab == MkIntent("physical_attack", Null, Val("stab"), ValN(90), "true", Null, <<>>)
Silly == MkIntent("interact_object", Null, Val("dance"), ValN(50), "false", Val("too silly"), <<>>)
UseWings == MkIntent("use_item", Val("wings"), Val("fly up"), ValN(90), "true", Null, <<"Wings">>)
Forge == MkIntent("interact_object", Null, Val("forge"), ValN(50), "true", Null, <<>>)

\* what the narrator's answer can carry: nothing, gold, a coin, an item, an
\* object, or gold and an item list whose entry is no string
NarrationPool ==
    { Quiet,
      [Quiet EXCEPT !.discovered_gold = 7],
      [Quiet EXCEPT !.discovered_items = <<Val("Old Coin")>>],
      [Quiet EXCEPT !.discovered_items = <<Val("Gem")>>],
      [Quiet EXCEPT !.discovered_objects = <<"Lever", "Chain">>],
      [Quiet EXCEPT !.discovered_gold = 7, !.discovered_items = <<Null>>] }

\* the action texts with what the backend answers to them and what the
\* narrator may say
Requests ==
    { <<"pull lever", Unavailable, {Quiet}>>,
      <<"pull lever", EmptyResponse, {Quiet}>>,
      <<"pull lever", InvalidJson, {Quiet}>>,
      <<"pull lever", Json([PullLever EXCEPT !.action_type = ABSENT]), {Quiet}>>,
      <<"Pull lever ", Json(PullLever), NarrationPool>>,
      <<"pull lever", Json(PullSomething), {Quiet}>>,
      <<"pull lever", Json(PullSomehow), {Quiet}>>,
      <<"pull lever", Json(PullGhost), {Quiet}>>,
      <<"search for gold", Json(SearchWall), {Quiet}>>,
      <<"stab goblin", Json(Stab), {Quiet}>>,
      <<"dance", Json(Silly), {Quiet}>>,
      <<"dance", Json([Silly EXCEPT !.reason_if_invalid = Null]), {Quiet}>>,
      <<"dance", Json([Silly EXCEPT !.reason_if_invalid = Missing]), {Quiet}>>,
      <<"use wings", Json(UseWings), {Quiet}>>,
      <<"forge blade", Json(Forge), {Quiet}>> }

DieFaces == {1, 10, 20}
GeneratedPool == {NoItem, Blade}

\* the requests of a player who tries the lever again and again
RetryRequests ==
    { <<"Pull lever ", Json(PullLever), {Quiet}>>,
      <<"pull lever", Json(PullLever), {Quiet}>>,
      <<"pull lever", Json(PullSomething), {Quiet}>>,
      <<"search for gold", Json(SearchWall), {Quiet}>>,
      <<"dance", Json(Silly), {Quiet}>> }

RetryFaces == {1, 10}

MaxSteps == 2
MaxRetries == 4

\* the run of failed checks of one normalized action text up to this call;
\* calls that do not come to count their check leave it
Streak(prev, report) ==
    IF ~report.counted THEN prev
    ELSE IF report.success THEN [n |-> 0, action |-> ""]
    ELSE IF Normalized(report.action) = prev.action
    THEN [n |-> prev.n + 1, action |-> prev.action]
    ELSE [n |-> 1, action |-> Normalized(report.action)]

\* one call of execute_free_action in the exploring state
Call(requests, rolls, generated) ==
    /\ game.state = "EXPLORING"
    /\ \E rq \in requests :
          /\ ~has_door_keyword(rq[1])
          /\ ~is_npc_conversation(room, rq[1])
          /\ \E o \in Outcomes(World(player, room, game), rq[1], rq[2], rolls,
                            generated, rq[3]) :
             /\ player' = o.w.player
             /\ room' = o.w.room
             /\ game' = o.w.game
             /\ last' = [report |-> o.report, streak |-> Streak(last.streak, o.report)]
    /\ steps' = steps + 1
    /\ UNCHANGED <<vcall, icall, dcall>>

Init ==
    /\ player \in Adventurers
    /\ room \in Chambers
    /\ game = NewGame
    /\ last = NoLast
    /\ vcall = NoCall
    /\ icall = NoInterpretation
    /\ dcall = NoDice
    /\ steps = 0

ExecuteFreeAction ==
    /\ steps < MaxSteps
    /\ Call(Requests, DieFaces, GeneratedPool)

Next == ExecuteFreeAction

Spec == Init /\ [][Next]_vars

RInit ==
    /\ player = MkPlayer(<<Wings>>, NoEquipment)
    /\ room \in Chambers
    /\ game = NewGame
    /\ last = NoLast
    /\ vcall = NoCall
    /\ icall = NoInterpretation
    /\ dcall = NoDice
    /\ steps = 0

RetryFreeAction ==
    /\ steps < MaxRetries
    /\ Call(RetryRequests, RetryFaces, {NoItem})

RNext == RetryFreeAction

SpecRetry == RInit /\ [][RNext]_vars

---------------------------------------------------------------------------
(* Claims about ActionValidator.validate, checked under SpecValidate *)

\* the recorded call passed the interpreter-verdict and plausibility steps
PastPlausibility ==
    /\ vcall.made
    /\ vcall.intent.valid \in {"true", "missing"}
    /\ vcall.intent.plausibility.k = "val"
    /\ vcall.intent.plausibility.v >= 10

\* the recorded call carries a method string
MethodGiven == vcall.intent.method.k = "val"

ReasonStartsWith(prefix) ==
    /\ vcall.result.kind = "denied"
    /\ vcall.result.reason.k = "val"
    /\ StartsWith(vcall.result.reason.v, prefix)

\* some inventory item is, by its lowercased name, an enabling item of the ability
HoldsEnablingItem(ability) ==
    \E i \in 1..Len(player.inventory) :
        InList(Lower(player.inventory[i].name), enabling_items(ability))

\* the lowercased target matches something the room or the player offers:
\* monster, loot, inventory, equipment, NPC, assigned object, discovered
\* objects or the description
MatchesSomething(t) ==
    \/ FoundBeforeDescription(t, player, room)
    \/ room.description # "" /\ IsAnchor(t, room)

\* the forbidden abilities named in the recorded method for which the player
\* holds no enabling item, by their position in FORBIDDEN_METHODS
Unmet ==
    {i \in 1..Len(FORBIDDEN_METHODS) :
        /\ Contains(FORBIDDEN_METHODS[i], Lower(vcall.intent.method.v))
        /\ ~HoldsEnablingItem(FORBIDDEN_METHODS[i])}

\* the names of the items in the inventory, the equipment and the room's loot
ItemNamesAtHand ==
    {player.inventory[i].name : i \in 1..Len(player.inventory)}
    \cup {player.equipment[s].name : s \in {x \in Slots : player.equipment[x] # NoItem}}
    \cup {room.loot[i].name : i \in 1..Len(room.loot)}

\* C1: once a name is in room.destroyed_objects, every validate call whose
\* target matches it (case-insensitive, one string containing the other) is
\* denied with a reason starting OBJECT_DESTROYED, whatever the rest of the
\* room, the player and the action_type are.
C1_DestroyedAlwaysDenied ==
    (/\ PastPlausibility
     /\ MethodGiven
     /\ vcall.intent.target.k = "val"
     /\ vcall.intent.target.v # ""
     /\ MatchesDestroyed(Lower(vcall.intent.target.v), room))
    => ReasonStartsWith("OBJECT_DESTROYED")

\* C6 as stated: for an action_type among physical_attack, social and
\* interact_object, a non-null target that is no exploration word and matches
\* nothing in the room or on the player is denied with
\* TARGET_NOT_PRESENT: <target>, whatever the method and the components are.
C6_UnmatchedTargetDenied ==
    (/\ PastPlausibility
     /\ vcall.intent.action_type \in TargetCheckedTypes
     /\ vcall.intent.target.k = "val"
     /\ ~InList(Lower(vcall.intent.target.v), exploration_targets)
     /\ ~MatchesSomething(Lower(vcall.intent.target.v)))
    => vcall.result = Denied(Val("TARGET_NOT_PRESENT: " \o vcall.intent.target.v))

\* C6 amended: the same for a non-empty target that, when the room has a
\* description, matches no destroyed object either; the denial is
\* TARGET_NOT_PRESENT: <target> even when the method names a forbidden
\* ability or a component is missing.
C6_UnmatchedNonEmptyTargetDenied ==
    (/\ PastPlausibility
     /\ vcall.intent.action_type \in TargetCheckedTypes
     /\ vcall.intent.target.k = "val"
     /\ vcall.intent.target.v # ""
     /\ ~InList(Lower(vcall.intent.target.v), exploration_targets)
     /\ ~MatchesSomething(Lower(vcall.intent.target.v))
     /\ (room.description = "" \/ ~MatchesDestroyed(Lower(vcall.intent.target.v), room)))
    => vcall.result = Denied(Val("TARGET_NOT_PRESENT: " \o vcall.intent.target.v))

\* an unmatched target, a forbidden method without its enabling item and a
\* missing component in one call, denied for the target
C6_Witness ==
    /\ PastPlausibility
    /\ vcall.intent.action_type = "physical_attack"
    /\ vcall.intent.target = Val("ghost")
    /\ vcall.intent.method = Val("fly up")
    /\ vcall.intent.components_used = <<"Ruby">>
    /\ player.inventory = <<>>
    /\ room.description # ""
    /\ vcall.result = Denied(Val("TARGET_NOT_PRESENT: ghost"))

\* C7: for every item name N in the inventory, the equipment or the room's
\* loot, an otherwise valid interact_object intent (valid, plausibility at
\* least 0.1, no forbidden method, no components) with target N.lower() is
\* allowed, for any method text and any room description.
C7_ItemAtHandAllowed ==
    (/\ PastPlausibility
     /\ MethodGiven
     /\ vcall.intent.action_type = "interact_object"
     /\ vcall.intent.components_used = <<>>
     /\ ~AnyIn(FORBIDDEN_METHODS, Lower(vcall.intent.method.v))
     /\ vcall.intent.target.k = "val"
     /\ \E n \in ItemNamesAtHand : vcall.intent.target.v = Lower(n))
    => vcall.result = Allowed

\* C8: validate denies every intent with valid=false before any other check,
\* and the denial is of category INTERPRETER_REJECTION, carrying the
\* interpreter's reason.
C8_InvalidIsInterpreterRejection ==
    (vcall.made /\ vcall.intent.valid = "false")
    => ReasonStartsWith("INTERPRETER_REJECTION")

\* C9: an intent the interpreter did not mark invalid is denied with the
\* reason IMPLAUSIBLE exactly when its plausibility (0.0 when the entry is
\* absent) is below 0.1, whatever its action_type, target, method and
\* components are; a plausibility of exactly 0.1 is not denied by this step.
C9_ImplausibleBelowThreshold ==
    (/\ vcall.made
     /\ vcall.intent.valid \in {"true", "missing"}
     /\ vcall.intent.plausibility.k # "null")
    => LET given == IF vcall.intent.plausibility.k = "missing" THEN 0
                    ELSE vcall.intent.plausibility.v
       IN  (given < 10) <=> (vcall.result = Denied(Val("IMPLAUSIBLE")))

\* a plausibility of 0.09 on an intent whose target is at hand, denied
C9_Witness ==
    /\ vcall.made
    /\ vcall.intent.valid = "true"
    /\ vcall.intent.plausibility = ValN(9)
    /\ vcall.intent.target = Val("sword")
    /\ player.inventory = <<Sword>>
    /\ vcall.result = Denied(Val("IMPLAUSIBLE"))

\* C10: when an intent passes the verdict, plausibility and target steps,
\* the result is PHYSICS_VIOLATION: <ability> for the first forbidden ability
\* its method names exactly when the inventory holds no enabling item for
\* that ability; an ability with no enabling item defined is denied for
\* every inventory.
C10_PhysicsViolationIffNoEnablingItem ==
    (/\ PastPlausibility
     /\ MethodGiven
     /\ vcall.result.kind # "raised"
     /\ ~ReasonStartsWith("TARGET_NOT_PRESENT")
     /\ ~ReasonStartsWith("OBJECT_DESTROYED")
     /\ ~ReasonStartsWith("OBJECT_FIXED"))
    => /\ Unmet # {} =>
            LET first == CHOOSE i \in Unmet : \A j \in Unmet : i <= j
            IN  vcall.result = Denied(Val("PHYSICS_VIOLATION: " \o FORBIDDEN_METHODS[first]))
       /\ Unmet = {} => ~ReasonStartsWith("PHYSICS_VIOLATION")
       /\ Contains("summon", Lower(vcall.intent.method.v))
            => ReasonStartsWith("PHYSICS_VIOLATION")

\* the player holds Wings and flies: allowed
C10_Witness ==
    /\ PastPlausibility
    /\ vcall.intent.method = Val("fly up")
    /\ vcall.intent.components_used = <<>>
    /\ player.inventory = <<Wings>>
    /\ vcall.result = Allowed

---------------------------------------------------------------------------
(* Claims about interpret_action, checked under SpecInterpret *)

\* the backend gave no usable answer: unavailable, empty, no JSON, or an
\* object without action_type, valid or plausibility
BackendFailed ==
    \/ icall.backend.kind \in {"unavailable", "empty", "invalid_json"}
    \/ icall.backend.kind = "json" /\ MissingField(icall.backend.json) # ""

\* C4: when the backend is unavailable, answers nothing, answers text that
\* is no JSON, or leaves out action_type, valid or plausibility,
\* interpret_action yields the safe default intent: interact_object, target
\* null, the original text as method, plausibility 0.5, valid, no components.
C4_FailureYieldsSafeDefault ==
    (icall.made /\ BackendFailed)
    => /\ icall.intent.action_type = "interact_object"
       /\ icall.intent.target = Null
       /\ icall.intent.method = Val(icall.action)
       /\ icall.intent.plausibility = ValN(50)
       /\ icall.intent.valid = "true"
       /\ icall.intent.components_used = <<>>

---------------------------------------------------------------------------
(* Claims about execute_free_action, checked under Spec and SpecRetry *)

\* this step is the third failed check in a row of one normalized action text
ThirdFailureInARow == last.streak.n = 2 /\ last'.streak.n = 3

\* the step appends the intent's target and resets the fail counter
DestroysAndResets ==
    /\ room'.destroyed_objects = Append(room.destroyed_objects, last'.report.target.v)
    /\ game'.fail_count = 0
    /\ game'.last_failed_action = ""

\* C2 as stated: when the same normalized action text fails three times in a
\* row, the third failure appends that intent's target to
\* room.destroyed_objects and resets fail_count to 0 and last_failed_action
\* to the empty string.
C2_ThirdFailureDestroys ==
    [][ThirdFailureInARow => DestroysAndResets]_vars

\* C2 amended: the third failure in a row does so when its intent names a
\* non-empty target; when the target is null or empty nothing is appended
\* and the counter is kept, fail_count standing at 3.
C2_ThirdFailureDestroysNamedTarget ==
    [][ThirdFailureInARow =>
          IF Truthy(last'.report.target)
          THEN DestroysAndResets
          ELSE /\ room'.destroyed_objects = room.destroyed_objects
               /\ game'.fail_count = 3
               /\ game'.last_failed_action = Normalized(last'.report.action)]_vars

\* the lever has failed three times in a row and is recorded as destroyed
C2_Witness ==
    /\ last.streak.n = 3
    /\ last.report.target = Val("Old Lever")
    /\ room.destroyed_objects = <<"Old Lever">>
    /\ game.fail_count = 0
    /\ game.last_failed_action = ""

\* C3: for a successful action that was not rejected, the change applied to
\* the player's hp, gold and xp and the item added to the inventory equal
\* the impact the resolver computed before the narration, whatever the
\* narration returns.
C3_AppliedImpactIsComputedImpact ==
    [][(/\ steps' = steps + 1
        /\ last'.report.checked
        /\ last'.report.success)
       => LET expected == ApplyImpact(player, last'.report.impact)
          IN  /\ player'.hp = expected.hp
              /\ player'.gold = expected.gold
              /\ player'.xp = expected.xp
              /\ player'.level = expected.level
              /\ last'.report.impact.item # NoItem
                    => InList(last'.report.impact.item, player'.inventory)]_vars

\* C5: whatever the intent is (a null target, a null reason_if_invalid, a
\* missing method or plausibility), execute_free_action returns without an
\* exception reaching the game loop.
C5_NoExceptionEscapes ==
    last.report.kind # "raised" /\ game.state # "CRASHED"

---------------------------------------------------------------------------
(* Claims about the component check of validate, checked under SpecValidate *)

\* the component's name is found by substring in the name of an inventory item
ComponentHeld(component) ==
    \E i \in 1..Len(player.inventory) : Contains(component, player.inventory[i].name)

\* the recorded call reached the component check: no earlier step denied it
ReachedComponents ==
    /\ PastPlausibility
    /\ MethodGiven
    /\ vcall.result.kind # "raised"
    /\ ~ReasonStartsWith("TARGET_NOT_PRESENT")
    /\ ~ReasonStartsWith("OBJECT_DESTROYED")
    /\ ~ReasonStartsWith("OBJECT_FIXED")
    /\ ~ReasonStartsWith("PHYSICS_VIOLATION")

\* C11: a call that reaches the component check is denied with
\* MISSING_COMPONENT: <name> only when no inventory item name contains that
\* component; a component found by substring in an item name is accepted.
C11_ComponentFoundBySubstring ==
    ReachedComponents
    => \A i \in 1..Len(vcall.intent.components_used) :
          ComponentHeld(vcall.intent.components_used[i])
             => vcall.result
                  # Denied(Val("MISSING_COMPONENT: " \o vcall.intent.components_used[i]))

---------------------------------------------------------------------------
(* DiceRoller.attribute_check as an operation *)

AttributePool == {3, 9, 10, 11, 14, 15}
DifficultyPool == {5, 10, 20}
GiftBonusPool == {0, 2}
\* the faces of a d20
D20 == 1..20

AttributeCheckCall ==
    /\ ~dcall.made
    /\ \E attribute_value \in AttributePool, difficulty \in DifficultyPool,
          advantage \in BOOLEAN, disadvantage \in BOOLEAN,
          gift_bonus \in GiftBonusPool, roll1 \in D20, roll2 \in D20 :
          dcall' = [made |-> TRUE, attribute_value |-> attribute_value,
                    difficulty |-> difficulty, advantage |-> advantage,
                    disadvantage |-> disadvantage, gift_bonus |-> gift_bonus,
                    roll1 |-> roll1, roll2 |-> roll2,
                    result |-> attribute_check(attribute_value, difficulty, advantage,
                                               disadvantage, gift_bonus, roll1, roll2)]
    /\ UNCHANGED <<player, room, game, last, vcall, icall, steps>>

DNext == AttributeCheckCall

SpecDice == IInit /\ [][DNext]_vars

---------------------------------------------------------------------------
(* Claims about DiceRoller.attribute_check, checked under SpecDice *)

\* floor(n / 2), said without division: the m with 2m <= n < 2m + 2
FloorHalf(n) == CHOOSE m \in -20..20 : 2 * m <= n /\ n < 2 * m + 2

\* C17: attribute_check returns total = roll + floor((attribute - 10) / 2) +
\* bonus, the floor rounding toward negative infinity, and success exactly
\* when total >= difficulty; the returned roll is one of the faces 1..20, and
\* without advantage or disadvantage it is the die that was rolled.
C17_TotalIsRollPlusFloorModifier ==
    dcall.made
    => /\ dcall.result.total
            = dcall.result.roll + FloorHalf(dcall.attribute_value - 10) + dcall.gift_bonus
       /\ dcall.result.success <=> (dcall.result.total >= dcall.difficulty)
       /\ dcall.result.roll \in 1..20
       /\ (~dcall.advantage /\ ~dcall.disadvantage) => dcall.result.roll = dcall.roll1
       /\ dcall.attribute_value = 9
            => dcall.result.total = dcall.result.roll - 1 + dcall.gift_bonus
       /\ dcall.attribute_value = 14
            => dcall.result.total = dcall.result.roll + 2 + dcall.gift_bonus

\* attribute 9 and a plain roll of 10: modifier -1, total 9, short of 10
C17_Witness ==
    /\ dcall.made
    /\ dcall.attribute_value = 9
    /\ dcall.difficulty = 10
    /\ ~dcall.advantage /\ ~dcall.disadvantage
    /\ dcall.gift_bonus = 0
    /\ dcall.roll1 = 10
    /\ dcall.result = [success |-> FALSE, roll |-> 10, total |-> 9]

\* C18: with advantage and disadvantage both set neither applies: the
\* returned roll is the first die, not the maximum or minimum of the two.
C18_BothFlagsPlainRoll ==
    (dcall.made /\ dcall.advantage /\ dcall.disadvantage)
    => dcall.result.roll = dcall.roll1

---------------------------------------------------------------------------
(* The difficulty of a check as an operation: resolve_free_action maps the
   intent's plausibility to the difficulty it rolls against *)

SearchTexts ==
    {"pull lever", "search the room", "examine the wall", "Inspect altar",
     "untersuche den raum"}

\* every plausibility from 0.00 to 1.00, in hundredths
PlausibilityRange == 0..100

NoDifficulty == [made |-> FALSE, plausibility |-> 0, base |-> 0]

\* the difficulty of one check, the call before it being remembered by its
\* plausibility and its unfloored difficulty; two calls are looked at
DifficultyCall ==
    /\ IF dcall.made THEN ~dcall.prev.made ELSE TRUE
    /\ \E action \in SearchTexts, plausibility \in PlausibilityRange :
          dcall' = [made |-> TRUE, action |-> action, plausibility |-> plausibility,
                    base |-> Difficulty(plausibility),
                    difficulty |-> CheckDifficulty(action, plausibility),
                    prev |-> IF dcall.made
                             THEN [made |-> TRUE, plausibility |-> dcall.plausibility,
                                   base |-> dcall.base]
                             ELSE NoDifficulty]
    /\ UNCHANGED <<player, room, game, last, vcall, icall, steps>>

DfNext == DifficultyCall

SpecDifficulty == IInit /\ [][DfNext]_vars

---------------------------------------------------------------------------
(* Claims about the difficulty, checked under SpecDifficulty *)

\* C14: the mapping gives 5 at plausibility 1.0 and 20 at plausibility 0.0,
\* stays within [5, 20] on [0, 1], and of two plausibilities the higher one
\* never gets the higher difficulty.
C14_DifficultyFallsFrom20To5 ==
    dcall.made
    => /\ dcall.base \in 5..20
       /\ dcall.plausibility = 100 => dcall.base = 5
       /\ dcall.plausibility = 0 => dcall.base = 20
       /\ (dcall.prev.made /\ dcall.prev.plausibility <= dcall.plausibility)
            => dcall.prev.base >= dcall.base

\* plausibility 0.0 and then 1.0: difficulty 20 and then 5
C14_Witness ==
    /\ dcall.made
    /\ dcall.prev.made
    /\ dcall.prev.plausibility = 0 /\ dcall.prev.base = 20
    /\ dcall.plausibility = 100 /\ dcall.base = 5

\* the search keywords as the specification names them
named_search_keywords == <<"examine", "search", "inspect">>

\* C15: an action whose text contains examine, search or inspect is rolled
\* against a difficulty of at least 12, whatever its plausibility.
C15_SearchFloor ==
    (dcall.made /\ AnyIn(named_search_keywords, Lower(dcall.action)))
    => dcall.difficulty >= 12

---------------------------------------------------------------------------
(* ActionResolver.determine_rewards as an operation *)

\* every difficulty the mapping yields
DifficultyRange == 5..20
\* roll_total - difficulty: failures by 1 to 9, successes by 0, 9 and 10
MarginPool == {-9, -8, -7, -5, -4, -1, 0, 9, 10}
RewardPlausibilities == {10, 30, 59, 60, 79, 80, 100}
RewardActionTypes == {"interact_object", "social"}
RewardTexts == {"pull lever", "Search for gold", ""}

NoRewards == [made |-> FALSE, plausibility |-> 0, success |-> FALSE, xp |-> 0]

\* one call of determine_rewards with the outcome of a check, as
\* resolve_free_action calls it (success is total >= difficulty); a second
\* call repeats the first with another plausibility
DetermineRewardsCall ==
    /\ IF dcall.made THEN ~dcall.prev.made ELSE TRUE
    /\ \E difficulty \in DifficultyRange, margin \in MarginPool,
          plausibility \in RewardPlausibilities,
          action_type \in RewardActionTypes, action_text \in RewardTexts :
          LET roll_total == difficulty + margin
              success == roll_total >= difficulty
          IN  /\ dcall.made
                   => /\ difficulty = dcall.difficulty
                      /\ roll_total = dcall.roll_total
                      /\ action_type = dcall.action_type
                      /\ action_text = dcall.action_text
              /\ \E impact \in determine_rewards(success, roll_total, difficulty,
                                                 plausibility, action_type, action_text) :
                    dcall' = [made |-> TRUE, success |-> success,
                              roll_total |-> roll_total, difficulty |-> difficulty,
                              plausibility |-> plausibility,
                              action_type |-> action_type, action_text |-> action_text,
                              impact |-> impact,
                              prev |-> IF dcall.made
                                       THEN [made |-> TRUE,
                                             plausibility |-> dcall.plausibility,
                                             success |-> dcall.success,
                                             xp |-> dcall.impact.xp]
                                       ELSE NoRewards]
    /\ UNCHANGED <<player, room, game, last, vcall, icall, steps>>

RwNext == DetermineRewardsCall

SpecRewards == IInit /\ [][RwNext]_vars

---------------------------------------------------------------------------
(* Claims about determine_rewards, checked under SpecRewards *)

\* the recorded call's roll_total - difficulty
RewardMargin == dcall.roll_total - dcall.difficulty

\* the recorded call's action text names treasure
TreasureText == AnyIn(treasure_keywords, Lower(dcall.action_text))

\* C12: a success with margin >= 10 whose action text holds no treasure
\* keyword earns gold 0; gold above 0 is paid only on a success with margin
\* >= 10, a treasure keyword in the text and an action_type other than social.
C12_GoldOnlyForTreasure ==
    dcall.made
    => /\ (dcall.success /\ RewardMargin >= 10 /\ ~TreasureText) => dcall.impact.gold = 0
       /\ dcall.impact.gold > 0
            => /\ dcall.success
               /\ RewardMargin >= 10
               /\ TreasureText
               /\ dcall.action_type # "social"

\* a critical success at pulling the lever: experience, no gold
C12_Witness ==
    /\ dcall.made
    /\ dcall.success
    /\ RewardMargin = 10
    /\ dcall.action_text = "pull lever"
    /\ dcall.action_type = "interact_object"
    /\ dcall.plausibility = 30
    /\ dcall.impact.xp > 0
    /\ dcall.impact.gold = 0

\* C13: of two successful calls with the same roll total and difficulty, the
\* one with the lower plausibility earns at least the XP of the other,
\* across the three tiers.
C13_LowerPlausibilityEarnsNoLess ==
    (/\ dcall.made
     /\ dcall.prev.made
     /\ dcall.success
     /\ dcall.prev.success)
    => /\ dcall.prev.plausibility <= dcall.plausibility => dcall.prev.xp >= dcall.impact.xp
       /\ dcall.prev.plausibility >= dcall.plausibility => dcall.prev.xp <= dcall.impact.xp

\* the same success at plausibility 0.59 and then at 0.30, within the lowest
\* tier: the second earns more
C13_Witness ==
    /\ dcall.made
    /\ dcall.prev.made
    /\ dcall.success
    /\ dcall.prev.plausibility = 59
    /\ dcall.plausibility = 30
    /\ dcall.impact.xp > dcall.prev.xp

\* C16: a failed check earns xp 0 and gold 0 and costs hp by its margin =
\* difficulty - total: 2..5 from margin 8, 1..3 for margin 5..7,
\* 1..(margin // 2 + 1) below margin 5 when the difficulty is at least 14, and
\* nothing below margin 5 when the difficulty is below 14.
C16_FailureCostsByMargin ==
    (dcall.made /\ ~dcall.success)
    => LET margin == dcall.difficulty - dcall.roll_total
           loss == 0 - dcall.impact.hp
       IN  /\ dcall.impact.xp = 0
           /\ dcall.impact.gold = 0
           /\ margin >= 8 => loss \in 2..5
           /\ (margin >= 5 /\ margin <= 7) => loss \in 1..3
           /\ (margin < 5 /\ dcall.difficulty >= 14) => loss \in 1..(margin \div 2 + 1)
           /\ (margin < 5 /\ dcall.difficulty < 14) => loss = 0

\* a check of difficulty 13 missed by 4: no damage
C16_Witness ==
    /\ dcall.made
    /\ ~dcall.success
    /\ dcall.difficulty = 13
    /\ dcall.roll_total = 9
    /\ dcall.impact = NoImpact


---------------------------------------------------------------------------
(* Equipment: the equip intent, the 'e <item>' command, the NPC's uncurse,
   pickups, door keys and consumed components, under SpecEquip *)

MaxEquipSteps == 4

UNCURSE_DEFAULT_COST == 50

\* what a step outside execute_free_action leaves as its report
Note(kind, text) ==
    [NoLast.report EXCEPT !.kind = kind, !.action = text]

\* main.py, the 'e <item>' command: the first inventory item whose name holds
\* the text goes to Player.equip_item
EquipByCommand(p, item_name) ==
    LET item == FirstByName(p, Lower(item_name))
    IN  IF item = NoItem THEN [ok |-> FALSE, found |-> FALSE, player |-> p]
        ELSE LET done == equip_item(p, item)
             IN  [ok |-> done.ok, found |-> TRUE, player |-> done.player]

\* the first equipment slot, in the dict's order, that holds a cursed item
SlotOrder == <<"weapon", "armor", "ring", "head">>
FirstCursedSlot(p) ==
    LET hits == {i \in 1..Len(SlotOrder) :
                    /\ p.equipment[SlotOrder[i]] # NoItem
                    /\ p.equipment[SlotOrder[i]].is_curse}
    IN  IF hits = {} THEN "none"
        ELSE SlotOrder[CHOOSE i \in hits : \A j \in hits : i <= j]

\* the 'uncurse' branch of _execute_npc_actions for a value that carries the
\* given cost
NpcUncurse(p, cost) ==
    LET slot == FirstCursedSlot(p) IN
    IF slot = "none" THEN [kind |-> "no_curse", player |-> p]
    ELSE IF cost > 0 /\ p.gold < cost THEN [kind |-> "too_poor", player |-> p]
    ELSE LET paid == IF cost > 0 THEN [p EXCEPT !.gold = @ - cost] ELSE p
             done == uncurse_item(paid, paid.equipment[slot])
         IN  [kind |-> IF done.ok THEN "uncursed" ELSE "uncurse_failed",
              player |-> done.player]

pickup_keywords == <<"hebe", "nimm", "nehme", "aufheben", "aufnehmen", "pick", "take">>
generic_words == <<"es", "das", "alles", "all", "it">>

\* main.py, the simple pickup: the index of the loot item the command takes,
\* 0 if none
PickedLoot(r, command) ==
    LET cmd_lower == Lower(command)
        command_words == Split(cmd_lower, {" "})
        generic_pickup == AnyIn(generic_words, cmd_lower)
        hits == {i \in 1..Len(r.loot) :
                    \/ \E w \in 1..Len(command_words) :
                          Contains(command_words[w], Lower(r.loot[i].name))
                    \/ generic_pickup /\ Len(r.loot) = 1}
    IN  IF ~AnyIn(pickup_keywords, cmd_lower) \/ r.loot = <<>> \/ hits = {} THEN 0
        ELSE CHOOSE i \in hits : \A j \in hits : i <= j

\* list.remove(x): the list without its first entry equal to x
RemoveItem(list, x) ==
    LET hits == {i \in 1..Len(list) : list[i] = x}
    IN  IF hits = {} THEN list
        ELSE LET k == CHOOSE i \in hits : \A j \in hits : i <= j
             IN  SubSeq(list, 1, k - 1) \o SubSeq(list, k + 1, Len(list))

\* _handle_door_action at a locked door: the first inventory item whose
\* key_id is the door's, NoItem if none
MatchingKey(p, r) ==
    LET hits == {i \in 1..Len(p.inventory) : p.inventory[i].key_id = r.locked_door}
    IN  IF hits = {} THEN NoItem
        ELSE p.inventory[CHOOSE i \in hits : \A j \in hits : i <= j]

EquipSword == MkIntent("equip", Val("Sword"), Val("equip"), ValN(100), "true", Null, <<>>)
EquipBlade == [EquipSword EXCEPT !.target = Val("sword_2")]
EquipWings == [EquipSword EXCEPT !.target = Val("wings")]
EquipGhost == [EquipSword EXCEPT !.target = Val("ghost")]
EquipNothing == [EquipSword EXCEPT !.target = Null]
EquipBlind == [EquipSword EXCEPT !.plausibility = NullN]
MeltSword == MkIntent("use_item", Val("sword"), Val("melt it down"), ValN(90), "true", Null, <<"Sword">>)
MeltBlade == MkIntent("use_item", Val("cursed blade"), Val("melt it down"), ValN(90), "true", Null, <<"Cursed Blade">>)

EquipRequests ==
    { <<"equip sword", Json(EquipSword), {Quiet}>>,
      <<"equip sword", Json(EquipBlind), {Quiet}>>,
      <<"equip the blade", Json(EquipBlade), {Quiet}>>,
      <<"equip wings", Json(EquipWings), {Quiet}>>,
      <<"equip ghost", Json(EquipGhost), {Quiet}>>,
      <<"equip", Json(EquipNothing), {Quiet}>> }

ConsumeRequests ==
    { <<"melt sword", Json(MeltSword), {Quiet}>>,
      <<"melt blade", Json(MeltBlade), {Quiet}>> }

EquipFaces == {1, 20}
EquipCommands == {"sword", "blade", "wings", "ghost", ""}
PickupCommands == {"take blade", "take it", "take ghost", "look around"}
UncurseCosts == {0, UNCURSE_DEFAULT_COST}

Armoury ==
    [MkRoom("", NoMonster, NoNpc, Null, <<>>, <<>>, <<>>)
        EXCEPT !.locked_door = DoorKey.key_id]

\* a squire who finds the Cursed Blade on the floor, and one who wears it
\* already and has the gold for a paid uncurse
Scenes ==
    { <<MkPlayer(<<Sword, Wings, DoorKey>>, NoEquipment),
        [Armoury EXCEPT !.loot = <<CursedBlade>>]>>,
      <<[MkPlayer(<<CursedBlade, Sword>>, [NoEquipment EXCEPT !["weapon"] = CursedBlade])
            EXCEPT !.gold = UNCURSE_DEFAULT_COST],
        Armoury>> }

EInit ==
    /\ \E scene \in Scenes : player = scene[1] /\ room = scene[2]
    /\ game = NewGame
    /\ last = NoLast
    /\ vcall = NoCall
    /\ icall = NoInterpretation
    /\ dcall = NoDice
    /\ steps = 0

\* execute_free_action for a text that the interpreter reads as an equip
\* intent or as the use of an inventory item
EquipmentFreeAction ==
    /\ steps < MaxEquipSteps
    /\ Call(EquipRequests \cup ConsumeRequests, EquipFaces, {NoItem})

\* the command 'e <item>'
EquipCommand ==
    /\ steps < MaxEquipSteps
    /\ game.state = "EXPLORING"
    /\ \E item_name \in EquipCommands :
          LET done == EquipByCommand(player, item_name)
          IN  /\ player' = done.player
              /\ last' = [report |-> Note(IF done.ok THEN "command_equipped"
                                          ELSE IF done.found THEN "command_rejected"
                                          ELSE "command_not_found", item_name),
                          streak |-> last.streak]
    /\ steps' = steps + 1
    /\ UNCHANGED <<room, game, vcall, icall, dcall>>

\* a command with a pickup keyword while loot lies in the room
Pickup ==
    /\ steps < MaxEquipSteps
    /\ game.state = "EXPLORING"
    /\ \E command \in PickupCommands :
          LET k == PickedLoot(room, command)
          IN  /\ k # 0
              /\ player' = [player EXCEPT !.inventory = Append(@, room.loot[k])]
              /\ room' = [room EXCEPT !.loot = RemoveItem(@, room.loot[k])]
              /\ last' = [report |-> Note("picked_up", command), streak |-> last.streak]
    /\ steps' = steps + 1
    /\ UNCHANGED <<game, vcall, icall, dcall>>

\* a door action at the locked door: a matching key opens it and is used up
UnlockDoor ==
    /\ steps < MaxEquipSteps
    /\ game.state = "EXPLORING"
    /\ room.locked_door # ""
    /\ LET matching_key == MatchingKey(player, room)
       IN  IF matching_key # NoItem
           THEN /\ room' = [room EXCEPT !.locked_door = ""]
                /\ player' = [player EXCEPT !.inventory = RemoveItem(@, matching_key)]
                /\ last' = [report |-> Note("unlocked", "unlock door"), streak |-> last.streak]
           ELSE /\ UNCHANGED <<room, player>>
                /\ last' = [report |-> Note("locked", "unlock door"), streak |-> last.streak]
    /\ steps' = steps + 1
    /\ UNCHANGED <<game, vcall, icall, dcall>>

\* an NPC's answer carries the action 'uncurse'
Uncurse ==
    /\ steps < MaxEquipSteps
    /\ \E cost \in UncurseCosts :
          LET done == NpcUncurse(player, cost)
          IN  /\ player' = done.player
              /\ last' = [report |-> Note(done.kind, "uncurse"), streak |-> last.streak]
    /\ steps' = steps + 1
    /\ UNCHANGED <<room, game, vcall, icall, dcall>>

ENext ==
    \/ EquipmentFreeAction
    \/ EquipCommand
    \/ Pickup
    \/ UnlockDoor
    \/ Uncurse

SpecEquip == EInit /\ [][ENext]_vars

\* a slot holds a cursed item
CursedIn(p, s) == p.equipment[s] # NoItem /\ p.equipment[s].is_curse

\* the step just taken was an attempt to equip that was turned down
EquipTurnedDown ==
    \/ last'.report.kind = "rejected" /\ last'.report.action_type = "equip"
    \/ last'.report.kind \in {"command_rejected", "command_not_found"}

\* C19: an equipped cursed item keeps its slot over every step, except that
\* the NPC's uncurse may clear its flag in place; an equip intent or 'e'
\* command that is turned down changes neither equipment nor inventory
C19_CursedItemStays ==
    [][ /\ \A s \in Slots :
              CursedIn(player, s)
              => \/ player'.equipment[s] = player.equipment[s]
                 \/ /\ last'.report.kind = "uncursed"
                    /\ player'.equipment[s] = [player.equipment[s] EXCEPT !.is_curse = FALSE]
        /\ EquipTurnedDown
              => /\ player'.equipment = player.equipment
                 /\ player'.inventory = player.inventory ]_vars

\* the Cursed Blade is worn, the Sword is at hand, and the last step was an
\* 'e sword' command that was refused
C19_Witness ==
    /\ player.equipment["weapon"] = CursedBlade
    /\ InList(Sword, player.inventory)
    /\ last.report.kind = "command_rejected"
    /\ last.report.action = "sword"

\* C20: every item in an equipment slot is in the inventory
C20_EquippedItemsAreHeld ==
    \A s \in Slots :
        player.equipment[s] # NoItem => InList(player.equipment[s], player.inventory)


\* C28: a call of execute_free_action that ends in a rejection (the validator
\* denies the intent, the validator raises, or the equip fails) leaves the
\* player, the room, the fail counter and the last failed action as they
\* were
C28_RejectionChangesNothing ==
    [][ (steps' = steps + 1 /\ last'.report.kind = "rejected")
        => /\ player' = player
           /\ room' = room
           /\ game'.fail_count = game.fail_count
           /\ game'.last_failed_action = game.last_failed_action ]_vars

\* a rejection of each kind, with a player and a room that have something to
\* lose
C28_Witness ==
    /\ last.report.kind = "rejected"
    /\ last.report.action_type = "equip"
    /\ \E s \in Slots : CursedIn(player, s)
    /\ StartsWith(last.report.reason.v, "VALIDATION_ERROR")

---------------------------------------------------------------------------
(* The grimoire, under SpecGrimoire *)

MaxSpellCalls == 3

SpellNames == {"Ignis", "ignis", "Frost"}
SpellComponents == {<<"Ruby">>, <<"Ruby", "Ruby">>, <<"Ruby", "Ash">>, <<"Ash", "Ruby">>}
SpellWords == {"ignis maxima", "Ignis Maxima"}

SpellPool ==
    { MkSpell(n, "fire", "minor", c, w, 50) :
        n \in SpellNames, c \in SpellComponents, w \in SpellWords }

GInit ==
    /\ player = MkPlayer(<<>>, NoEquipment)
    /\ room = MkRoom(Description, NoMonster, NoNpc, Null, <<>>, <<>>, <<>>)
    /\ game = NewGame
    /\ last = NoLast
    /\ vcall = NoCall
    /\ icall = NoInterpretation
    /\ dcall = NoDice
    /\ steps = 0

\* a caller adds a spell; the call, the grimoire before it and what it
\* returned are recorded
AddSpell ==
    /\ steps < MaxSpellCalls
    /\ \E spell \in SpellPool :
          LET done == add_spell(player.grimoire, spell)
          IN  /\ player' = [player EXCEPT !.grimoire = done.grimoire]
              /\ dcall' = [made |-> TRUE, op |-> "add_spell", spell |-> spell,
                           before |-> player.grimoire, returned |-> done.returned]
    /\ steps' = steps + 1
    /\ UNCHANGED <<room, game, last, vcall, icall>>

\* the player dies: the grimoire is kept and its run counter reset
ResetCurrentRun ==
    /\ steps < MaxSpellCalls
    /\ player' = [player EXCEPT !.grimoire = reset_current_run(@)]
    /\ dcall' = [made |-> TRUE, op |-> "reset_current_run", spell |-> MkSpell("", "", "", <<>>, "", 0),
                 before |-> player.grimoire, returned |-> FALSE]
    /\ steps' = steps + 1
    /\ UNCHANGED <<room, game, last, vcall, icall>>

GNext == AddSpell \/ ResetCurrentRun

SpecGrimoire == GInit /\ [][GNext]_vars

\* C21: no two spells of the grimoire share a name, no two share the set of
\* components together with the words up to case; add_spell returns true
\* exactly when the grimoire is the one before with the spell appended, and
\* otherwise leaves the spells as they were; no operation shortens the list
C21_GrimoireHasNoDuplicates ==
    LET spells == player.grimoire.spells IN
    /\ \A i, j \in 1..Len(spells) :
          i # j => /\ spells[i].name # spells[j].name
                   /\ ~SameRecipe(spells[i], spells[j].components, spells[j].words)
    /\ dcall.made =>
          /\ dcall.op = "add_spell" =>
                IF dcall.returned
                THEN spells = Append(dcall.before.spells, dcall.spell)
                ELSE spells = dcall.before.spells
          /\ dcall.op = "reset_current_run" => spells = dcall.before.spells
          /\ Len(spells) >= Len(dcall.before.spells)

\* a spell was turned away for its recipe alone: its name is new, an earlier
\* spell has its components in another order and its words in another case
C21_Witness ==
    /\ dcall.made /\ dcall.op = "add_spell" /\ ~dcall.returned
    /\ Len(player.grimoire.spells) >= 2
    /\ \A i \in 1..Len(player.grimoire.spells) :
          player.grimoire.spells[i].name # dcall.spell.name
    /\ \E i \in 1..Len(player.grimoire.spells) :
          /\ player.grimoire.spells[i].components # dcall.spell.components
          /\ player.grimoire.spells[i].words # dcall.spell.words


---------------------------------------------------------------------------
(* ActionValidator.validate as a function of its arguments *)

---------------------------------------------------------------------------
(* Spell casting through execute_free_action, under SpecMagic *)

MaxMagicSteps == 2

Herb == [id |-> "herb_1", name |-> "Herb", type |-> "material", is_curse |-> FALSE, key_id |-> ""]
Ruby == [id |-> "ruby_1", name |-> "Ruby", type |-> "material", is_curse |-> FALSE, key_id |-> ""]

\* the spells the caster knows: a minor healing and a moderate fire spell
Mend == MkSpell("Mend", "heal", "minor", <<"Herb">>, "sana", 50)
Ember == MkSpell("Ember", "fire", "moderate", <<"Ruby">>, "ignis", 40)

Casters ==
    { [MkPlayer(<<Herb, Herb, Ruby>>, NoEquipment) EXCEPT
          !.hp = hp,
          !.grimoire = [NoSpells EXCEPT !.spells = <<Mend, Ember>>,
                                        !.total_discoveries = 2,
                                        !.current_run_discoveries = 2]]
        : hp \in {3, 20} }

Arenas == { MkRoom("", NoMonster, NoNpc, Null, <<>>, <<>>, <<>>),
            MkRoom("", Goblin, NoNpc, Null, <<>>, <<>>, <<>>) }

CastMend == MkIntent("attempt_magic", Null, Val("raise a hand and say 'Sana'"), ValN(50), "true", Null, <<"Herb">>)
CastEmber == MkIntent("attempt_magic", Null, Val("say \"ignis\""), ValN(50), "true", Null, <<"Ruby">>)
Conjure == MkIntent("attempt_magic", Null, Val("chant 'aurum'"), ValN(50), "true", Null, <<>>)
Mumble == MkIntent("attempt_magic", Null, Val("mumble"), ValN(50), "true", Null, <<>>)

\* the magic evaluator's answers: a likely new light spell, an unlikely
\* attempt that is no discovery
Midas == [is_valid_attempt |-> TRUE, plausibility |-> 80, is_discovery |-> TRUE,
          spell_name |-> "Midas", effect_type |-> "light", magnitude |-> "minor"]
Fizzle == [is_valid_attempt |-> TRUE, plausibility |-> 20, is_discovery |-> FALSE,
           spell_name |-> "", effect_type |-> "", magnitude |-> ""]

\* the backend answers the interpreter with the intent and the magic
\* evaluator with the magic data
JsonAndMagic(intent, magic_data) == [kind |-> "json", json |-> intent, magic |-> magic_data]

MagicRequests ==
    { <<"cast mend", JsonAndMagic(CastMend, NoAnswer), {Quiet}>>,
      <<"cast ember", JsonAndMagic(CastEmber, NoAnswer), {Quiet}>>,
      <<"conjure gold", JsonAndMagic(Conjure, Midas), {Quiet}>>,
      <<"conjure gold", JsonAndMagic(Conjure, Fizzle), {Quiet}>>,
      <<"mumble", JsonAndMagic(Mumble, NoAnswer), {Quiet}>> }

MagicFaces == {1, 20}

MInit ==
    /\ player \in Casters
    /\ room \in Arenas
    /\ game = NewGame
    /\ last = NoLast
    /\ vcall = NoCall
    /\ icall = NoInterpretation
    /\ dcall = NoDice
    /\ steps = 0

\* execute_free_action for a text that the interpreter reads as a spell
MagicFreeAction ==
    /\ steps < MaxMagicSteps
    /\ Call(MagicRequests, MagicFaces, {NoItem})

MNext == MagicFreeAction

SpecMagic == MInit /\ [][MNext]_vars

\* C23: a cast of a known spell that fails leaves the spell's uses, the
\* monster and the room as they were and costs the caster 1..3 hp with no xp
\* and no gold; a cast that succeeds adds one to the spell's uses
C23_UsesCountSuccessfulCasts ==
    [][ LET cast == last'.report.magic IN
        /\ cast.kind = "known_failed"
              => /\ player'.grimoire.spells[cast.spell].uses
                       = player.grimoire.spells[cast.spell].uses
                 /\ room'.monster = room.monster
                 /\ room' = room
                 /\ last'.report.impact.hp \in (0 - 3)..(0 - 1)
                 /\ last'.report.impact.xp = 0
                 /\ last'.report.impact.gold = 0
        /\ cast.kind = "known_cast"
              => player'.grimoire.spells[cast.spell].uses
                    = player.grimoire.spells[cast.spell].uses + 1 ]_vars

\* C24: after a known heal or light spell was cast with success, the caster's
\* hp is the hp before plus the amount rolled for the cast, capped at max_hp
C24_HealAppliedOnce ==
    [][ (/\ last'.report.kind = "resolved"
         /\ last'.report.magic.kind = "known_cast"
         /\ last'.report.magic.effect_type \in {"heal", "light"})
        => player'.hp = Min(player.max_hp, player.hp + last'.report.impact.hp) ]_vars

\* C25: no resolution of a magic attempt carries gold in its impact
C25_MagicNeverYieldsGold ==
    last.report.action_type = "attempt_magic" => last.report.impact.gold = 0

-----------------------------------------------------------------------------
(* AIService.narrate_action_result: the request, the reformatting retries *)
(* and the parsing of the answer *)

max_retries == 2

FIRST_TEMPERATURE == 8
RETRY_TEMPERATURE == 2

\* the three backquotes of a markdown fence; a string of this notation cannot
\* hold a backquote, a tilde stands for each
FENCE == "~~~"

\* str.endswith(p)
EndsWith(s, p) == Len(p) <= Len(s) /\ SubSeq(s, Len(s) - Len(p) + 1, Len(s)) = p

At(s, i) == SubSeq(s, i, i)

IsDigit(c) == c \in {"0", "1", "2", "3", "4", "5", "6", "7", "8", "9"}

DigitValue(c) ==
    CASE c = "0" -> 0 [] c = "1" -> 1 [] c = "2" -> 2 [] c = "3" -> 3 [] c = "4" -> 4
      [] c = "5" -> 5 [] c = "6" -> 6 [] c = "7" -> 7 [] c = "8" -> 8 [] c = "9" -> 9

\* int(s) for a run of digits
RECURSIVE ParseInt(_)
ParseInt(s) ==
    IF s = "" THEN 0
    ELSE ParseInt(SubSeq(s, 1, Len(s) - 1)) * 10 + DigitValue(At(s, Len(s)))

\* the places of s where a run of digits starts, and where the run ends
RunStarts(s) ==
    {i \in 1..Len(s) : IsDigit(At(s, i)) /\ (i = 1 \/ ~IsDigit(At(s, i - 1)))}

RunEnd(s, i) ==
    CHOOSE j \in i..Len(s) :
        /\ \A k \in i..j : IsDigit(At(s, k))
        /\ j = Len(s) \/ ~IsDigit(At(s, j + 1))

\* re.search(r'(\d+)\s*W', s) for the words W: group 1 of the leftmost match
NumberBefore(s, words) ==
    LET hits == {i \in RunStarts(s) :
                    \E w \in words :
                        StartsWith(LStrip(SubSeq(s, RunEnd(s, i) + 1, Len(s))), w)}
        first == CHOOSE i \in hits : \A j \in hits : i <= j
    IN  IF hits = {} THEN MissingN
        ELSE ValN(ParseInt(SubSeq(s, first, RunEnd(s, first))))

\* re.search(r'W.*(\d+)', s): the greedy .* leaves group 1 the last digit
DigitAfter(s, word) ==
    LET ends == {i + Len(word) - 1 : i \in {j \in 1..Len(s) : StartsWith(SubSeq(s, j, Len(s)), word)}}
        digits == {i \in 1..Len(s) : IsDigit(At(s, i))}
        last_digit == CHOOSE i \in digits : \A j \in digits : j <= i
    IN  IF ends # {} /\ digits # {} /\ (\E e \in ends : e < last_digit)
        THEN ValN(DigitValue(At(s, last_digit)))
        ELSE MissingN

\* re.search(r'A.*B', s)
Then(s, a, b) ==
    \E i \in 1..Len(s) :
        /\ StartsWith(SubSeq(s, i, Len(s)), a)
        /\ Contains(b, SubSeq(s, i + Len(a), Len(s)))

\* re.search(r'(A1|A2|..)\s+(B1|B2|..)', s)
Spaced(s, firsts, seconds) ==
    \E i \in 1..Len(s) : \E a \in firsts : \E b \in seconds :
        LET rest == SubSeq(s, i + Len(a), Len(s)) IN
        /\ StartsWith(SubSeq(s, i, Len(s)), a)
        /\ StartsWith(rest, " ")
        /\ StartsWith(LStrip(rest), b)

\* the first of the four coin patterns with a group that matches (lines
\* 1050-1053), as the amount it captures
CapturedAmount(text_lower) ==
    LET p1 == NumberBefore(text_lower, {"goldmünze", "münze"})
        p2 == DigitAfter(text_lower, "münze")
        p3 == NumberBefore(text_lower, {"gold"})
        p4 == DigitAfter(text_lower, "gold")
    IN  IF p1.k = "val" THEN p1
        ELSE IF p2.k = "val" THEN p2
        ELSE IF p3.k = "val" THEN p3
        ELSE p4

\* the coin patterns without a group (lines 1054-1065)
MentionsMoney(text_lower) ==
    \/ Spaced(text_lower, {"verkrustete", "verkrusteter", "verkrusteten", "verkrustetes"}, {"münzen"})
    \/ Spaced(text_lower, {"alte", "alter", "alten", "altes"}, {"münzen"})
    \/ Contains("goldstücke", text_lower)
    \/ Contains("silbermünzen", text_lower)
    \/ Contains("kupfermünzen", text_lower)
    \/ Contains("münzen", text_lower)
    \/ Contains("geldbeutel", text_lower)
    \/ Contains("geldsack", text_lower)
    \/ Then(text_lower, "beutel", "gold")
    \/ Spaced(text_lower, {"schwere", "schwerer", "schweren", "schweres"}, {"beutel"})
    \/ Then(text_lower, "kleiner", "beutel")
    \/ Then(text_lower, "beutel", "münz")

\* the gold the fallback reads out of a plain text (lines 1039-1099)
FallbackGold(text_lower) ==
    LET captured == CapturedAmount(text_lower)
        has_money == captured.k = "val" \/ MentionsMoney(text_lower)
        amount == IF captured.k = "val" /\ captured.v > 0 /\ captured.v < 1000
                  THEN captured.v ELSE 0
    IN  IF ~has_money THEN {0}
        ELSE IF amount # 0 THEN {amount}
        ELSE IF AnyIn(<<"haufen", "viele", "stapel">>, text_lower) THEN Draw(15, 30)
        ELSE IF AnyIn(<<"schwer", "geldbeutel", "geldsack">>, text_lower) THEN Draw(20, 40)
        ELSE IF AnyIn(<<"einige", "paar">>, text_lower) THEN Draw(5, 15)
        ELSE IF AnyIn(<<"klein", "wenig">>, text_lower) THEN Draw(3, 10)
        ELSE Draw(8, 20)

\* the items the fallback reads out of a plain text (lines 1102-1118)
FallbackItems(text_lower) ==
    LET Found(hit, name) == IF hit THEN <<name>> ELSE <<>> IN
       Found(Spaced(text_lower, {"alte", "zerrissene", "verblichene"}, {"karte", "landkarte"}), "Alte Karte")
    \o Found(Spaced(text_lower, {"rostiger", "alter", "verrosteter"}, {"schlüssel"}), "Rostiger Schlüssel")
    \o Found(Spaced(text_lower, {"zerbrochene", "alte"}, {"flasche", "phiole"}), "Zerbrochene Flasche")
    \o Found(Spaced(text_lower, {"altes", "verstaubtes"}, {"buch", "tagebuch"}), "Altes Buch")
    \o Found(AnyIn(<<"goldring", "silberring", "bronzering">>, text_lower), "Ring")
    \o Found(Spaced(text_lower, {"alte", "blutige"}, {"waffe"}), "Alte Waffe")
    \o Found(Contains("edelstein", text_lower), "Edelstein")
    \o Found(Contains("juwel", text_lower), "Juwel")
    \o Found(Spaced(text_lower, {"altes", "zerrissenes"}, {"pergament"}), "Altes Pergament")

\* the result every early return and the outer except clause give
EmptyNarration ==
    [narrative |-> "", discovered_gold |-> 0, discovered_items |-> <<>>,
     discovered_objects |-> <<>>]

\* result_text.startswith('{') or result_text.startswith(FENCE + 'json')
looks_like_json(result_text) ==
    StartsWith(result_text, "{") \/ StartsWith(result_text, FENCE \o "json")

\* the clean-up of the markdown fence before json.loads (lines 1020-1027)
Unfenced(result_text) ==
    LET stripped == Strip(result_text)
        opened == IF StartsWith(stripped, FENCE \o "json")
                  THEN SubSeq(stripped, 8, Len(stripped)) ELSE stripped
        bare == IF StartsWith(opened, FENCE)
                THEN SubSeq(opened, 4, Len(opened)) ELSE opened
        closed == IF EndsWith(bare, FENCE)
                  THEN SubSeq(bare, 1, Len(bare) - 3) ELSE bare
    IN  Strip(closed)

\* the answers of the backend that are JSON documents
FullDocument ==
    "{\"narrative\": \"Du siehst nichts.\", \"discovered_gold\": 5, \"discovered_items\": [], \"discovered_objects\": []}"
BareDocument == "{\"narrative\": \"ok\"}"
WordyDocument == "{\"discovered_gold\": \"viel\"}"
ListDocument == "[1]"

\* json.loads over the answers of the backend: a dict with the entries it
\* has, a value that is no dict, or a JSONDecodeError
Loads(text) ==
    CASE text = FullDocument ->
           [k |-> "dict", narrative |-> Val("Du siehst nichts."),
            discovered_gold |-> [k |-> "int", v |-> 5],
            discovered_items |-> [k |-> "val", v |-> <<>>],
            discovered_objects |-> [k |-> "val", v |-> <<>>]]
      [] text = BareDocument ->
           [k |-> "dict", narrative |-> Val("ok"),
            discovered_gold |-> [k |-> "missing", v |-> 0],
            discovered_items |-> [k |-> "missing", v |-> <<>>],
            discovered_objects |-> [k |-> "missing", v |-> <<>>]]
      [] text = WordyDocument ->
           [k |-> "dict", narrative |-> Missing,
            discovered_gold |-> [k |-> "str", v |-> 0],
            discovered_items |-> [k |-> "missing", v |-> <<>>],
            discovered_objects |-> [k |-> "missing", v |-> <<>>]]
      [] text = ListDocument -> [k |-> "list"]
      [] OTHER -> [k |-> "JSONDecodeError"]

\* lines 1017-1135: the answer parsed as JSON, read with the regex fallback
\* when it is no JSON, and the empty result on any other exception
ParseNarration(result_text) ==
    LET text == Unfenced(result_text)
        parsed == Loads(text)
    IN  IF parsed.k = "JSONDecodeError"
        THEN { [narrative |-> text, discovered_gold |-> g,
                discovered_items |-> FallbackItems(Lower(text)),
                discovered_objects |-> <<>>] : g \in FallbackGold(Lower(text)) }
        ELSE IF parsed.k # "dict" \/ parsed.discovered_gold.k = "str"
        THEN {EmptyNarration}
        ELSE { [narrative |-> IF parsed.narrative.k = "val" THEN parsed.narrative.v ELSE "",
                discovered_gold |-> parsed.discovered_gold.v,
                discovered_items |-> parsed.discovered_items.v,
                discovered_objects |-> parsed.discovered_objects.v] }

\* what provider.generate can do: raise, return None, or return a text
Raises == [k |-> "raise", v |-> ""]

PlainTexts ==
    {"  ", "Nichts geschieht.", "Du findest 12 goldmünzen und einen edelstein.",
     "Ein geldbeutel liegt da.", "münzen: 12", ListDocument}

Responses ==
    {Raises, Null, Val("")}
        \cup {Val(t) : t \in PlainTexts}
        \cup {Val(FullDocument), Val(FENCE \o "json" \o BareDocument \o FENCE),
              Val(WordyDocument), Val("{kaputt")}

\* ParseNarration of every text the backend can answer, computed once
Narrations ==
    [result_text \in {Strip(response.v) : response \in {r \in Responses : r.k = "val"}}
        |-> ParseNarration(result_text)]

Running == [pending |-> TRUE]

NoNarration ==
    [made |-> FALSE, op |-> "narrate_action_result", pc |-> "start",
     available |-> TRUE, answers |-> <<>>, temperatures |-> <<>>,
     result_text |-> "", retry_count |-> 0, returned |-> Running]

NInit ==
    /\ player = MkPlayer(<<>>, NoEquipment)
    /\ room = MkRoom(Description, NoMonster, NoNpc, Null, <<>>, <<>>, <<>>)
    /\ game = NewGame
    /\ last = NoLast
    /\ vcall = NoCall
    /\ icall = NoInterpretation
    /\ steps = 0
    /\ \E available \in BOOLEAN : dcall = [NoNarration EXCEPT !.available = available]

Returned(call, result) == [call EXCEPT !.pc = "returned", !.returned = result]

\* lines 867-968: the availability check, the first request and the check of
\* its answer
NarrateRequest ==
    /\ dcall.pc = "start"
    /\ IF ~dcall.available
       THEN dcall' = Returned([dcall EXCEPT !.made = TRUE], EmptyNarration)
       ELSE \E response \in Responses :
              LET asked == [dcall EXCEPT !.made = TRUE,
                                         !.answers = Append(@, response),
                                         !.temperatures = Append(@, FIRST_TEMPERATURE)]
              IN  dcall' = IF response.k # "val" \/ response.v = ""
                           THEN Returned(asked, EmptyNarration)
                           ELSE [asked EXCEPT !.pc = "loop",
                                              !.result_text = Strip(response.v)]
    /\ UNCHANGED <<player, room, game, last, vcall, icall, steps>>

NarrateRetry_Unbounded ==
    /\ dcall.pc = "loop"
    /\ ~looks_like_json(dcall.result_text)
    /\ \E response \in Responses :
          LET asked == [dcall EXCEPT !.retry_count = @ + 1,
                                     !.answers = Append(@, response),
                                     !.temperatures = Append(@, RETRY_TEMPERATURE)]
          IN  dcall' = IF response.k # "val"
                       THEN Returned(asked, EmptyNarration)
                       ELSE [asked EXCEPT !.result_text = Strip(response.v)]
    /\ UNCHANGED <<player, room, game, last, vcall, icall, steps>>

\* lines 973-1008: one turn of the retry loop; a request that raises or
\* answers None ends in the outer except clause
NarrateRetry ==
    /\ dcall.pc = "loop"
    /\ ~looks_like_json(dcall.result_text) /\ dcall.retry_count < max_retries
    /\ \E response \in Responses :
          LET asked == [dcall EXCEPT !.retry_count = @ + 1,
                                     !.answers = Append(@, response),
                                     !.temperatures = Append(@, RETRY_TEMPERATURE)]
          IN  dcall' = IF response.k # "val"
                       THEN Returned(asked, EmptyNarration)
                       ELSE [asked EXCEPT !.result_text = Strip(response.v)]
    /\ UNCHANGED <<player, room, game, last, vcall, icall, steps>>

\* lines 1017-1135: the loop is left and the answer is parsed
NarrateParse ==
    /\ dcall.pc = "loop"
    /\ ~(~looks_like_json(dcall.result_text) /\ dcall.retry_count < max_retries)
    /\ \E result \in Narrations[dcall.result_text] :
          dcall' = Returned(dcall, result)
    /\ UNCHANGED <<player, room, game, last, vcall, icall, steps>>

NNext == NarrateRequest \/ NarrateRetry \/ NarrateParse

\* the call runs on when it can: nothing else is scheduled in its place
SpecNarrate == NInit /\ [][NNext]_vars /\ WF_vars(NNext)

NarrationKeys == {"narrative", "discovered_gold", "discovered_items", "discovered_objects"}

\* C26: narrate_action_result comes to its return, what it returns has the
\* four keys narrative, discovered_gold, discovered_items and
\* discovered_objects, the backend is asked at most three times, and every
\* request after the first follows an answer that did not look like JSON
C26_NarrationReturnsWithinThreeRequests ==
    /\ <>(dcall.pc = "returned")
    /\ [](/\ dcall.pc = "returned" => DOMAIN dcall.returned = NarrationKeys
          /\ Len(dcall.answers) <= 1 + max_retries
          /\ \A i \in 2..Len(dcall.answers) :
                /\ dcall.answers[i - 1].k = "val"
                /\ ~StartsWith(Strip(dcall.answers[i - 1].v), "{")
                /\ ~StartsWith(Strip(dcall.answers[i - 1].v), FENCE \o "json"))

\* three requests were made and the last plain answer was read by the fallback
C26_Witness ==
    /\ dcall.op = "narrate_action_result"
    /\ dcall.pc = "returned"
    /\ Len(dcall.answers) = 3
    /\ dcall.returned.discovered_gold = 12
    /\ dcall.returned.discovered_items = <<"Edelstein">>

-----------------------------------------------------------------------------
(* Game.start_loading, Game.stop_loading and the spinner thread *)

MaxSpinners == 3
MaxCommands == 2

LoadingMessages == {"DM", "NPC"}

\* a thread that was never started
Unborn == "unborn"

\* Game.__init__ (lines 34-36): nothing loads, no spinner thread; `threads`
\* holds the place of each spinner thread in _spinner_worker, `main` the
\* place of the main thread, `printed` what the spinner line shows
NoSpinner ==
    [made |-> FALSE, op |-> "loading", loading |-> FALSE, loading_message |-> "",
     spinner_thread |-> 0, threads |-> [t \in 1..MaxSpinners |-> Unborn],
     main |-> "idle", printed |-> ""]

SInit ==
    /\ player = MkPlayer(<<>>, NoEquipment)
    /\ room = MkRoom(Description, NoMonster, NoNpc, Null, <<>>, <<>>, <<>>)
    /\ game = NewGame
    /\ last = NoLast
    /\ vcall = NoCall
    /\ icall = NoInterpretation
    /\ dcall = NoSpinner
    /\ steps = 0

\* threading.Thread.is_alive()
is_alive(call, t) == t # 0 /\ call.threads[t] \notin {Unborn, "finished"}

Alive(call) == {t \in 1..MaxSpinners : is_alive(call, t)}

\* start_loading (lines 121-129): the flag and the message are set and a new
\* thread is started on _spinner_worker; every caller pairs the call with
\* stop_loading in a finally clause, so nothing loads when it is made
StartLoading ==
    /\ dcall.main = "idle"
    /\ ~dcall.loading
    /\ \E t \in 1..MaxSpinners : \E message \in LoadingMessages :
          /\ dcall.threads[t] = Unborn
          /\ \A u \in 1..(t - 1) : dcall.threads[u] # Unborn
          /\ dcall' = [dcall EXCEPT !.made = TRUE, !.loading = TRUE,
                                    !.loading_message = message,
                                    !.spinner_thread = t,
                                    !.threads[t] = "while"]
    /\ UNCHANGED <<player, room, game, last, vcall, icall, steps>>

\* stop_loading (lines 131-137): the flag and the message are cleared; a
\* thread that is alive is joined, a thread that is not is dropped at once
StopLoading ==
    /\ dcall.main = "idle"
    /\ dcall.loading
    /\ LET cleared == [dcall EXCEPT !.loading = FALSE, !.loading_message = ""] IN
       dcall' = IF is_alive(dcall, dcall.spinner_thread)
                THEN [cleared EXCEPT !.main = "join"]
                ELSE [cleared EXCEPT !.spinner_thread = 0]
    /\ UNCHANGED <<player, room, game, last, vcall, icall, steps>>

\* join(timeout=0.5) returns because the thread has finished (lines 137-138)
Joined ==
    /\ dcall.main = "join"
    /\ ~is_alive(dcall, dcall.spinner_thread)
    /\ dcall' = [dcall EXCEPT !.main = "idle", !.spinner_thread = 0]
    /\ UNCHANGED <<player, room, game, last, vcall, icall, steps>>

\* join(timeout=0.5) returns because the half second is over while the
\* thread still runs (lines 137-138)
JoinTimedOut ==
    /\ dcall.main = "join"
    /\ is_alive(dcall, dcall.spinner_thread)
    /\ dcall' = [dcall EXCEPT !.main = "idle", !.spinner_thread = 0]
    /\ UNCHANGED <<player, room, game, last, vcall, icall, steps>>

\* _spinner_worker, `while self.loading` (line 106)
WorkerTest(t) ==
    /\ dcall.threads[t] = "while"
    /\ dcall' = [dcall EXCEPT !.threads[t] = IF dcall.loading THEN "print" ELSE "clear"]
    /\ UNCHANGED <<player, room, game, last, vcall, icall, steps>>

\* _spinner_worker, the spinner line is printed (lines 108-113)
WorkerPrint(t) ==
    /\ dcall.threads[t] = "print"
    /\ dcall' = [dcall EXCEPT !.threads[t] = "sleep", !.printed = dcall.loading_message]
    /\ UNCHANGED <<player, room, game, last, vcall, icall, steps>>

\* _spinner_worker, time.sleep(0.1) is over (line 114)
WorkerWake(t) ==
    /\ dcall.threads[t] = "sleep"
    /\ dcall' = [dcall EXCEPT !.threads[t] = "while"]
    /\ UNCHANGED <<player, room, game, last, vcall, icall, steps>>

\* _spinner_worker, the spinner line is cleared and the thread ends (lines
\* 116-119)
WorkerClear(t) ==
    /\ dcall.threads[t] = "clear"
    /\ dcall' = [dcall EXCEPT !.threads[t] = "finished", !.printed = ""]
    /\ UNCHANGED <<player, room, game, last, vcall, icall, steps>>

Worker == \E t \in 1..MaxSpinners : WorkerTest(t) \/ WorkerPrint(t) \/ WorkerWake(t) \/ WorkerClear(t)

\* the main thread goes on to the next command once nothing loads any more
NextCommand ==
    /\ dcall.main = "idle"
    /\ ~dcall.loading
    /\ steps < MaxCommands
    /\ steps' = steps + 1
    /\ UNCHANGED <<player, room, game, last, vcall, icall, dcall>>

SNext == StartLoading \/ StopLoading \/ Joined \/ JoinTimedOut \/ Worker \/ NextCommand

SpecSpinner == SInit /\ [][SNext]_vars

\* C27: a step of a spinner thread changes nothing of the game but the
\* spinner line; once stop_loading has returned no spinner thread is alive,
\* so never more than one is alive and none runs while a command is processed
C27_SpinnerStoppedAfterStopLoading ==
    /\ dcall.op = "loading"
    /\ Cardinality(Alive(dcall)) <= 1
    /\ (dcall.main = "idle" /\ ~dcall.loading) => Alive(dcall) = {}

-----------------------------------------------------------------------------
(* Doors: Dungeon.generate_doors, Door.unlock, move_player, *)
(* _handle_door_action and the unlock_door action of an NPC *)

DungeonSize == 2

Cells == (0..(DungeonSize - 1)) \X (0..(DungeonSize - 1))
Directions == {"north", "south", "east", "west"}

\* a direction without an entry in room.doors
NoDoor == [state |-> "NONE", key_id |-> ""]
OpenDoor == [state |-> "OPEN", key_id |-> ""]
LockedDoor(key_id) == [state |-> "LOCKED", key_id |-> key_id]

RustyKey == [id |-> "key_rusty_key", name |-> "Rostiger Schlüssel", type |-> "key", is_curse |-> FALSE, key_id |-> "rusty_key"]
GoldenKey == [id |-> "key_golden_key", name |-> "Goldener Schlüssel", type |-> "key", is_curse |-> FALSE, key_id |-> "golden_key"]

\* the key_id entries of KEY_TEMPLATES the doors are locked with
KeyIds == {"rusty_key", "golden_key"}

\* the step of a direction and the direction of the mirror door
Dx(d) == IF d = "east" THEN 1 ELSE IF d = "west" THEN 0 - 1 ELSE 0
Dy(d) == IF d = "south" THEN 1 ELSE IF d = "north" THEN 0 - 1 ELSE 0
mirror_dir(d) ==
    CASE d = "north" -> "south" [] d = "south" -> "north"
      [] d = "east" -> "west" [] d = "west" -> "east"

Neighbour(cell, d) == <<cell[1] + Dx(d), cell[2] + Dy(d)>>

\* the doors generate_doors may lock: the east and south doors of every room
\* but the starting room
Lockable ==
    {cd \in Cells \X {"east", "south"} : cd[1] # <<0, 0>> /\ Neighbour(cd[1], cd[2]) \in Cells}

\* what generate_doors can decide: each key template locks at most one door
DoorPlans ==
    { plan \in [Lockable -> {OpenDoor} \cup {LockedDoor(k) : k \in KeyIds}] :
        \A cd1 \in Lockable, cd2 \in Lockable :
            (plan[cd1].state = "LOCKED" /\ plan[cd1] = plan[cd2]) => cd1 = cd2 }

\* generate_doors: an east and a south door for every room that has a room
\* on that side, each with its mirror door of the same state and key
DoorsOf(plan) ==
    [cell \in Cells |-> [d \in Directions |->
        LET door(c, dd) == IF <<c, dd>> \in Lockable THEN plan[<<c, dd>>] ELSE OpenDoor
        IN  IF Neighbour(cell, d) \notin Cells THEN NoDoor
            ELSE IF d \in {"east", "south"} THEN door(cell, d)
            ELSE door(Neighbour(cell, d), mirror_dir(d))]]

GeneratedDoors == {DoorsOf(plan) : plan \in DoorPlans}

KeyRings == {<<>>, <<RustyKey>>, <<Sword, GoldenKey>>, <<RustyKey, GoldenKey>>}

DInit ==
    /\ \E inventory \in KeyRings : player = MkPlayer(inventory, NoEquipment)
    /\ room = MkRoom(Description, NoMonster, NoNpc, Null, <<>>, <<>>, <<>>)
    /\ game = NewGame
    /\ last = NoLast
    /\ vcall = NoCall
    /\ icall = NoInterpretation
    /\ \E doors \in GeneratedDoors :
          dcall = [made |-> FALSE, op |-> "doors", doors |-> doors, at |-> <<0, 0>>]
    /\ steps = 0

\* Door.unlock(key_id)
unlock(door, key_id) ==
    IF door.state # "LOCKED" THEN door
    ELSE IF door.key_id # "" /\ key_id = door.key_id THEN [door EXCEPT !.state = "CLOSED"]
    ELSE door

\* Door.open()
open(door) == IF door.state = "LOCKED" THEN door ELSE [door EXCEPT !.state = "OPEN"]

\* the first inventory item whose key_id is the door's, NoItem if none
KeyFor(p, door) ==
    LET hits == {i \in 1..Len(p.inventory) : p.inventory[i].key_id = door.key_id}
    IN  IF hits = {} THEN NoItem
        ELSE p.inventory[CHOOSE i \in hits : \A j \in hits : i <= j]

\* the door at `cell` and its mirror door unlocked with the key
UnlockedBoth(doors, cell, d, key) ==
    LET one == [doors EXCEPT ![cell][d] = unlock(@, key.key_id)]
        adjacent_room == Neighbour(cell, d)
    IN  IF adjacent_room \in Cells /\ one[adjacent_room][mirror_dir(d)] # NoDoor
        THEN [one EXCEPT ![adjacent_room][mirror_dir(d)] = unlock(@, key.key_id)]
        ELSE one

\* the direction a movement command stands for
CommandDirection(direction) ==
    CASE direction = "n" -> "north" [] direction = "s" -> "south"
      [] direction = "o" -> "east" [] direction = "w" -> "west"

\* move_player(game, direction) up to the change of place: a locked door in
\* the way is unlocked with the matching key, which is used up; without the
\* key the player stays
MovePlayer ==
    /\ \E direction \in {"n", "s", "o", "w"} :
          LET d == CommandDirection(direction)
              to == Neighbour(dcall.at, d)
              door == dcall.doors[dcall.at][d]
              key == KeyFor(player, door)
          IN  /\ to \in Cells
              /\ IF door # NoDoor /\ door.state = "LOCKED"
                 THEN IF key # NoItem
                      THEN /\ dcall' = [dcall EXCEPT !.made = TRUE, !.at = to,
                                           !.doors = UnlockedBoth(dcall.doors, dcall.at, d, key)]
                           /\ player' = [player EXCEPT !.inventory = RemoveItem(@, key)]
                      ELSE /\ dcall' = [dcall EXCEPT !.made = TRUE]
                           /\ UNCHANGED player
                 ELSE /\ dcall' = [dcall EXCEPT !.made = TRUE, !.at = to]
                      /\ UNCHANGED player
    /\ UNCHANGED <<room, game, last, vcall, icall, steps>>

\* direction_map of _handle_door_action in its order
direction_map == <<<<"nord", "north">>, <<"north", "north">>, <<"süd", "south">>,
                   <<"south", "south">>, <<"ost", "east">>, <<"east", "east">>,
                   <<"west", "west">>, <<"westen", "west">>>>

\* room.doors in the order generate_doors fills it, row by row: the mirror
\* door of the room above, the mirror door of the room to the left, then the
\* room's own east and south doors
DoorOrder == <<"north", "west", "east", "south">>

\* the door a text asks for: the first direction word it holds, else the
\* first locked door of the room, "" if neither
target_direction(doors, cell, action_lower) ==
    LET named == {i \in 1..Len(direction_map) : Contains(direction_map[i][1], action_lower)}
        locked == {i \in 1..Len(DoorOrder) : doors[cell][DoorOrder[i]].state = "LOCKED"}
    IN  IF named # {} THEN direction_map[CHOOSE i \in named : \A j \in named : i <= j][2]
        ELSE IF locked # {} THEN DoorOrder[CHOOSE i \in locked : \A j \in locked : i <= j]
        ELSE ""

DoorTexts == {"open door", "unlock the south door", "öffne die tür im osten", "open the west door"}

\* execute_free_action for a text with a door keyword that
\* _handle_door_action handles (lines 1614-1628, 1484-1596)
HandleDoorAction ==
    /\ \E action \in DoorTexts :
          LET action_lower == Lower(action)
              d == target_direction(dcall.doors, dcall.at, action_lower)
              door == dcall.doors[dcall.at][d]
              key == KeyFor(player, door)
          IN  /\ has_door_keyword(action)
              /\ d # ""
              /\ door # NoDoor
              /\ IF door.state = "LOCKED"
                 THEN IF key # NoItem
                      THEN /\ dcall' = [dcall EXCEPT !.made = TRUE,
                                           !.doors = UnlockedBoth(dcall.doors, dcall.at, d, key)]
                           /\ player' = [player EXCEPT !.inventory = RemoveItem(@, key)]
                      ELSE /\ dcall' = [dcall EXCEPT !.made = TRUE]
                           /\ UNCHANGED player
                 ELSE /\ dcall' = [dcall EXCEPT !.made = TRUE,
                                      !.doors[dcall.at][d] = open(@)]
                      /\ UNCHANGED player
    /\ UNCHANGED <<room, game, last, vcall, icall, steps>>

\* the direction _execute_npc_actions reads out of the value of an
\* unlock_door action (lines 1412-1420)
NpcDirection(direction_str) ==
    IF Contains("n", direction_str) \/ Contains("north", direction_str) THEN "north"
    ELSE IF Contains("s", direction_str) \/ Contains("south", direction_str) THEN "south"
    ELSE IF Contains("o", direction_str) \/ Contains("east", direction_str) THEN "east"
    ELSE IF Contains("w", direction_str) \/ Contains("west", direction_str) THEN "west"
    ELSE ""

NpcValues == {"s", "o", "East", "w", "up"}

\* _execute_npc_actions with one unlock_door action (lines 1406-1429)
NpcUnlockDoor ==
    /\ \E value \in NpcValues :
          LET door_dir == NpcDirection(Lower(value)) IN
          dcall' = IF door_dir # "" /\ dcall.doors[dcall.at][door_dir] # NoDoor
                      /\ dcall.doors[dcall.at][door_dir].state = "LOCKED"
                   THEN [dcall EXCEPT !.made = TRUE, !.doors[dcall.at][door_dir].state = "OPEN"]
                   ELSE [dcall EXCEPT !.made = TRUE]
    /\ UNCHANGED <<player, room, game, last, vcall, icall, steps>>

DoNext == MovePlayer \/ HandleDoorAction \/ NpcUnlockDoor

SpecDoors == DInit /\ [][DoNext]_vars

\* the doors that have a mirror door, as <<cell, direction>>
DoorPairs ==
    {cd \in Cells \X Directions : /\ dcall.doors[cd[1]][cd[2]] # NoDoor
                                  /\ Neighbour(cd[1], cd[2]) \in Cells}

\* C30: a door and its mirror door are both LOCKED or both not, and a LOCKED
\* door leaves the LOCKED state only in a step that finds a key with the
\* door's key_id in the inventory and takes that key out of it
C30_DoorsUnlockInPairsWithKey ==
    /\ [](\A cd \in DoorPairs :
             dcall.doors[cd[1]][cd[2]].state = "LOCKED"
                <=> dcall.doors[Neighbour(cd[1], cd[2])][mirror_dir(cd[2])].state = "LOCKED")
    /\ [][ \A cd \in Cells \X Directions :
              (/\ dcall.doors[cd[1]][cd[2]].state = "LOCKED"
               /\ dcall'.doors[cd[1]][cd[2]].state # "LOCKED")
              => /\ KeyFor(player, dcall.doors[cd[1]][cd[2]]) # NoItem
                 /\ player'.inventory
                       = RemoveItem(player.inventory, KeyFor(player, dcall.doors[cd[1]][cd[2]])) ]_vars

-----------------------------------------------------------------------------
(* The player's hp across the paths of execute_free_action, under SpecHealth *)

MaxHealthSteps == 2

Skeleton == [present |-> TRUE, name |-> "Skelettwächter", hp |-> 20, unaware |-> TRUE]

\* a crypt with a lever, a locked door and a skeleton that has not noticed
\* the player
Crypt ==
    [MkRoom("An old lever on the wall.", Skeleton, NoNpc, Null, <<>>, <<>>, <<>>)
        EXCEPT !.locked_door = "k1"]

\* a fighter who knows a healing spell, wounded or not, new or a few points
\* short of the next level, with a free weapon hand or wearing the Cursed
\* Blade
Fighters ==
    { [MkPlayer(<<Sword, Herb, Herb, DoorKey>>, [NoEquipment EXCEPT !["weapon"] = weapon])
          EXCEPT !.hp = hp, !.xp = xp,
                 !.grimoire = [NoSpells EXCEPT !.spells = <<Mend>>,
                                               !.total_discoveries = 1,
                                               !.current_run_discoveries = 1]]
        : hp \in {3, 20}, xp \in {0, 90}, weapon \in {NoItem, CursedBlade} }

StabSkeleton == MkIntent("physical_attack", Val("Skelett"), Val("stab"), ValN(90), "true", Null, <<>>)

\* one text for each way through execute_free_action: the surprise attack,
\* the narrated check, a rejection, an equip intent and a spell
HealthRequests ==
    { <<"stab the skeleton", JsonAndMagic(StabSkeleton, NoAnswer), {Quiet}>>,
      <<"pull lever", JsonAndMagic(PullLever, NoAnswer), {Quiet}>>,
      <<"dance", JsonAndMagic(Silly, NoAnswer), {Quiet}>>,
      <<"equip sword", JsonAndMagic(EquipSword, NoAnswer), {Quiet}>>,
      <<"cast mend", JsonAndMagic(CastMend, NoAnswer), {Quiet}>> }

HealthFaces == {1, 20}

HInit ==
    /\ player \in Fighters
    /\ room = Crypt
    /\ game = NewGame
    /\ last = NoLast
    /\ vcall = NoCall
    /\ icall = NoInterpretation
    /\ dcall = NoDice
    /\ steps = 0

\* execute_free_action for a text without a door keyword
HealthFreeAction ==
    /\ steps < MaxHealthSteps
    /\ Call(HealthRequests, HealthFaces, {NoItem})

\* execute_free_action for a text with a door keyword at the locked door:
\* _handle_door_action handles it and the call returns
DoorShortcut ==
    /\ steps < MaxHealthSteps
    /\ game.state = "EXPLORING"
    /\ room.locked_door # ""
    /\ LET matching_key == MatchingKey(player, room)
       IN  IF matching_key # NoItem
           THEN /\ room' = [room EXCEPT !.locked_door = ""]
                /\ player' = [player EXCEPT !.inventory = RemoveItem(@, matching_key)]
                /\ last' = [report |-> Note("unlocked", "open door"), streak |-> last.streak]
           ELSE /\ UNCHANGED <<room, player>>
                /\ last' = [report |-> Note("locked", "open door"), streak |-> last.streak]
    /\ steps' = steps + 1
    /\ UNCHANGED <<game, vcall, icall, dcall>>

HNext == HealthFreeAction \/ DoorShortcut

SpecHealth == HInit /\ [][HNext]_vars

\* C29: after every call of execute_free_action that returns, the hp lie
\* between 0 and max_hp, and a player with 0 hp is in the GAMEOVER state
C29_HpInRangeAndDeathTaken ==
    game.state # "CRASHED"
       => /\ 0 <= player.hp
          /\ player.hp <= player.max_hp
          /\ player.hp = 0 => game.state = "GAMEOVER"

C29_Witness == steps > 0 /\ last.report.kind = "backstab" /\ player.hp = 0 /\ game.state = "GAMEOVER"

=============================================================================
